---- MODULE Spec2Model ----
(***************************************************************************)
(* GaleriaFora: the capability-gated orchestration services MediaFetcher   *)
(* and MediaUploader, with the value objects they rely on (ProviderName,   *)
(* ExternalProviderInfo, Page), as a state machine.                        *)
(*                                                                         *)
(* One call is in flight at a time.  A handler runs synchronously up to    *)
(* the point where it awaits the provider's operation; the provider then   *)
(* returns or raises, and the handler resumes up to its next await or its  *)
(* end.  trace, invocations and provided record what the handler did to    *)
(* its collaborators during the current call.                              *)
(*                                                                         *)
(* SpecValues takes the value objects (Page, ExternalMedia,                *)
(* ExternalProviderInfo, ContentMetadata, AiMetadata) on their own: built  *)
(* holds the arguments of one construction, then the object or the         *)
(* exception it gave, then what to_dict followed by from_dict made of it.  *)
(***************************************************************************)
EXTENDS Integers, Sequences, FiniteSets, TLC

(***************************************************************************)
(* Bounds                                                                  *)
(***************************************************************************)
MaxProviders == 2      \* longest registry
MaxNames == 2          \* longest list of names given to upload_to_multiple
MaxTags == 32          \* longest list of tags given to ExternalMedia

(***************************************************************************)
(* Python values, tagged by their type.  v is always a sequence of         *)
(* strings: the characters of a str, the elements of a list, the digits    *)
(* of an int, the identity of an object.                                   *)
(***************************************************************************)
PyNone == [t |-> "none", v |-> <<>>]
PyStr(s) == [t |-> "str", v |-> s]
PyInt(d) == [t |-> "int", v |-> <<d>>]
PyList(xs) == [t |-> "list", v |-> xs]
PyObj(id) == [t |-> "obj", v |-> <<id>>]

\* Python truth value: None, "", [] and 0 are false
Truthy(x) ==
    CASE x.t = "none" -> FALSE
      [] x.t = "str"  -> x.v # <<>>
      [] x.t = "list" -> x.v # <<>>
      [] x.t = "int"  -> x.v # <<"0">>
      [] x.t = "bool" -> x.v = <<"True">>
      [] x.t = "dict" -> x.v # <<>>
      [] OTHER        -> TRUE

\* x or y
PyOr(x, y) == IF Truthy(x) THEN x ELSE y

(***************************************************************************)
(* Characters and str methods                                              *)
(***************************************************************************)
IsSpace(c) == c = " "
IsAlnum(c) == c \in {"a", "b", "c", "A", "B"}
LowerChar(c) == IF c = "A" THEN "a" ELSE IF c = "B" THEN "b" ELSE c

\* s without its leading whitespace
LStrip(s) ==
    IF \A i \in 1..Len(s) : IsSpace(s[i]) THEN <<>>
    ELSE SubSeq(s, CHOOSE i \in 1..Len(s) :
                       ~IsSpace(s[i]) /\ \A j \in 1..(i - 1) : IsSpace(s[j]),
                Len(s))

\* s without its trailing whitespace: k counts from the end of s
RStrip(s) ==
    IF \A i \in 1..Len(s) : IsSpace(s[i]) THEN <<>>
    ELSE SubSeq(s, 1, Len(s) + 1 - CHOOSE k \in 1..Len(s) :
                       /\ ~IsSpace(s[Len(s) + 1 - k])
                       /\ \A j \in 1..(k - 1) : IsSpace(s[Len(s) + 1 - j]))

Strip(s) == RStrip(LStrip(s))
Lower(s) == [i \in 1..Len(s) |-> LowerChar(s[i])]
\* s without the first of its characters that are not alphanumeric
KeepAlnum_dropping_first(s) ==
    IF \A i \in 1..Len(s) : IsAlnum(s[i]) THEN s
    ELSE LET k == CHOOSE i \in 1..Len(s) : ~IsAlnum(s[i]) /\ \A j \in 1..(i - 1) : IsAlnum(s[j])
         IN  SubSeq(s, 1, k - 1) \o SubSeq(s, k + 1, Len(s))
\* s without its characters that are not alphanumeric
KeepAlnum(s) == SelectSeq(s, IsAlnum)

(***************************************************************************)
(* ProviderName                                                            *)
(***************************************************************************)
NonStringName == "CannotCreateProviderNameWithNonStringNameException"
EmptyName == "CannotCreateProviderNameWithEmptyNameException"
NormalizesToEmpty == "CannotCreateProviderNameThatNormalizesToEmptyException"

\* ProviderName.__init__ raising the empty-name error for a name without
\* alphanumeric characters
ProviderName_empty_without_alnum(x) ==
    IF x.t # "str" THEN [exc |-> NonStringName, name |-> <<>>]
    ELSE IF Strip(x.v) = <<>> THEN [exc |-> EmptyName, name |-> <<>>]
    ELSE LET normalized_name == KeepAlnum(Lower(Strip(x.v)))
         IN  IF normalized_name = <<>>
             THEN [exc |-> EmptyName, name |-> <<>>]
             ELSE [exc |-> "", name |-> normalized_name]

\* ProviderName.__init__: exc is the exception raised ("" when none), name
\* the value of _name
ProviderName(x) ==
    IF x.t # "str" THEN [exc |-> NonStringName, name |-> <<>>]
    ELSE IF Strip(x.v) = <<>> THEN [exc |-> EmptyName, name |-> <<>>]
    ELSE LET normalized_name == KeepAlnum(Lower(Strip(x.v)))
         IN  IF normalized_name = <<>>
             THEN [exc |-> NormalizesToEmpty, name |-> <<>>]
             ELSE [exc |-> "", name |-> normalized_name]

\* ProviderName.__eq__: self is the _name of a ProviderName, other a
\* ProviderName instance (tag "ProviderName"), a str, or anything else
ProviderName_eq(self, other) ==
    CASE other.t = "ProviderName" -> self = other.v
      [] other.t = "str"          -> self = Lower(Strip(other.v))
      [] OTHER                    -> FALSE

PyProviderName(n) == [t |-> "ProviderName", v |-> n]

(***************************************************************************)
(* ExternalProviderCapability, ExternalProviderInfo                        *)
(***************************************************************************)
FETCH_LATEST == "fetch_latest"
FETCH_BY_USER == "fetch_by_user"
FETCH_BY_TAGS == "fetch_by_tags"
UPLOAD == "upload"
ExternalProviderCapability == {FETCH_LATEST, FETCH_BY_USER, FETCH_BY_TAGS, UPLOAD}

\* ExternalProviderInfo.has_capability: membership in the list _capabilities
has_capability(info, capability) ==
    \E k \in 1..Len(info.capabilities) : info.capabilities[k] = capability

(***************************************************************************)
(* Page                                                                    *)
(***************************************************************************)
\* the pages a provider hands back: items, next_cursor, has_more as stored
\* by Page.__init__
Pages ==
    { [items |-> <<>>, next_cursor |-> PyNone, has_more |-> FALSE],
      [items |-> <<"m1", "m2">>, next_cursor |-> PyNone, has_more |-> FALSE],
      [items |-> <<"m2">>, next_cursor |-> PyStr(<<"c">>), has_more |-> TRUE] }

NoPage == [items |-> <<>>, next_cursor |-> PyNone, has_more |-> FALSE]

(***************************************************************************)
(* The registry and the inputs of the calls                                *)
(***************************************************************************)
DEFAULT_LIMIT == 200

\* the providers that can be registered: info.name._name and the list
\* info._capabilities (never empty)
RegisteredNames == { <<"a">>, <<"b">> }
CapabilityLists ==
    { <<FETCH_BY_USER, FETCH_BY_TAGS>>, <<UPLOAD, FETCH_LATEST>> }
Providers == [name : RegisteredNames, capabilities : CapabilityLists]

SeqsUpTo(S, n) == UNION { [1..k -> S] : k \in 0..n }
Registries == SeqsUpTo(Providers, MaxProviders)

\* provider_name arguments: absent, non-string (false and true), empty,
\* whitespace only, no alphanumeric character, registered as given,
\* registered after normalization, unregistered
NameInputs ==
    { PyNone, PyInt("0"), PyInt("7"), PyStr(<<>>), PyStr(<<" ">>),
      PyStr(<<"-">>), PyStr(<<"a">>), PyStr(<<" ", "A", "-">>), PyStr(<<"b">>),
      PyStr(<<"c">>) }

\* names given in a list to upload_to_multiple
BatchNames ==
    { PyNone, PyStr(<<" ">>), PyStr(<<"a">>), PyStr(<<" ", "A", "-">>), PyStr(<<"c">>) }
BatchInputs == SeqsUpTo(BatchNames, MaxNames)

Limits == { DEFAULT_LIMIT, 1 }
Usernames == { PyStr(<<"a">>), PyStr(<<>>) }
TagInputs == { PyNone, PyList(<<>>), PyList(<<"b", "a">>) }
Media == { "m1", "m2" }

\* what a provider's upload returns when it does not raise
UploadReturns == { PyNone, PyObj("False") }

(***************************************************************************)
(* Errors of the orchestration services                                    *)
(***************************************************************************)
NoProvidersError(op) ==
    CASE op = "fetch_latest"  -> "CannotFetchLatestMediaWithoutRegisteredProvidersException"
      [] op = "fetch_by_user" -> "CannotFetchMediaByUserWithoutRegisteredProvidersException"
      [] op = "fetch_by_tags" -> "CannotFetchMediaByTagsWithoutRegisteredProvidersException"
      [] op = "upload"        -> "CannotUploadMediaWithoutRegisteredProvidersException"
      [] op = "upload_to_multiple" ->
             "CannotUploadMediaToMultipleWithoutRegisteredProvidersException"

InvalidNameError(op) ==
    CASE op = "fetch_latest"  -> "CannotFetchLatestMediaWithInvalidProviderNameException"
      [] op = "fetch_by_user" -> "CannotFetchMediaByUserWithInvalidProviderNameException"
      [] op = "fetch_by_tags" -> "CannotFetchMediaByTagsWithInvalidProviderNameException"
      [] op = "upload"        -> "CannotUploadMediaWithInvalidProviderNameException"
      [] op = "upload_to_multiple" ->
             "CannotUploadMediaToMultipleWithInvalidProviderNameException"

NotSupportedError(op) ==
    CASE op = "fetch_latest" ->
             "CannotFetchLatestMediaProviderDoesNotSupportFetchLatestException"
      [] op = "fetch_by_user" ->
             "CannotFetchMediaByUserProviderDoesNotSupportFetchByUserException"
      [] op = "fetch_by_tags" ->
             "CannotFetchMediaByTagsProviderDoesNotSupportFetchByTagsException"
      [] op = "upload" -> "CannotUploadMediaProviderDoesNotSupportUploadException"
      [] op = "upload_to_multiple" ->
             "CannotUploadMediaProviderDoesNotSupportUploadException"

\* the capability each operation requires
RequiredCapability(op) ==
    CASE op = "fetch_latest"  -> FETCH_LATEST
      [] op = "fetch_by_user" -> FETCH_BY_USER
      [] op = "fetch_by_tags" -> FETCH_BY_TAGS
      [] op = "upload"        -> UPLOAD
      [] op = "upload_to_multiple" -> UPLOAD

ProviderError == "ProviderError"   \* an Exception raised by a provider's operation

(***************************************************************************)
(* What a handler does to its collaborators, in order.  pos is the         *)
(* position of the name being processed (1 for the single-name calls),     *)
(* prov the index in get_providers() of the provider concerned (0: none).  *)
(***************************************************************************)
Ev(ev, pos, prov) == [ev |-> ev, pos |-> pos, prov |-> prov]

\* the check `not provider_name or not isinstance(provider_name, str)`
IsInvalidName(provider_name) == ~Truthy(provider_name) \/ provider_name.t # "str"

\* the lookup keeping the last provider whose name matches
LastMatch(providers, normalized_name) ==
    LET hits == { k \in 1..Len(providers) :
                    ProviderName_eq(providers[k].name, PyProviderName(normalized_name)) }
    IN  IF hits = {} THEN 0 ELSE CHOOSE k \in hits : \A j \in hits : k >= j

\* first index of a provider whose info.name equals normalized_name, 0 if none
FirstMatch(providers, normalized_name) ==
    LET hits == { k \in 1..Len(providers) :
                    ProviderName_eq(providers[k].name, PyProviderName(normalized_name)) }
    IN  IF hits = {} THEN 0 ELSE CHOOSE k \in hits : \A j \in hits : k <= j

\* MediaFetcher._get_provider: exc is the exception raised ("" when none),
\* prov the index of the provider returned
MediaFetcher_get_provider(providers, provider_name, pos) ==
    IF IsInvalidName(provider_name)
    THEN [exc |-> "ValueError", prov |-> 0, steps |-> <<Ev("validate_name", pos, 0)>>]
    ELSE LET normalized_name == ProviderName(provider_name)
         IN  IF normalized_name.exc # ""
             THEN [exc |-> normalized_name.exc, prov |-> 0,
                   steps |-> <<Ev("validate_name", pos, 0), Ev("ProviderName", pos, 0)>>]
             ELSE LET k == FirstMatch(providers, normalized_name.name)
                  IN  [exc |-> IF k = 0 THEN "KeyError" ELSE "",
                       prov |-> k,
                       steps |-> <<Ev("validate_name", pos, 0), Ev("ProviderName", pos, 0),
                                   Ev("get_providers", pos, 0)>>]

\* MediaUploader._get_provider
MediaUploader_get_provider(providers, provider_name, pos) ==
    IF IsInvalidName(provider_name)
    THEN [exc |-> "ValueError", prov |-> 0, steps |-> <<Ev("validate_name", pos, 0)>>]
    ELSE LET normalized_name == ProviderName(provider_name)
         IN  IF normalized_name.exc # ""
             THEN [exc |-> normalized_name.exc, prov |-> 0,
                   steps |-> <<Ev("validate_name", pos, 0), Ev("ProviderName", pos, 0)>>]
             ELSE LET k == FirstMatch(providers, normalized_name.name)
                  IN  [exc |-> IF k = 0 THEN "KeyError" ELSE "",
                       prov |-> k,
                       steps |-> <<Ev("validate_name", pos, 0), Ev("ProviderName", pos, 0),
                                   Ev("get_providers", pos, 0)>>]

\* except (ValueError, KeyError)
IsValueOrKeyError(exc) == exc \in {"ValueError", "KeyError"}

(***************************************************************************)
(* MediaFetcher: each handler up to its await.  exc is the error raised    *)
(* ("" when the handler reaches the provider's operation), prov the        *)
(* resolved provider, steps what was done on the way.                      *)
(***************************************************************************)
\* fetch_latest validating the name before it asks the registry
fetch_latest_sync_name_first(providers, provider_name) ==
    LET s0 == <<Ev("validate_name", 1, 0)>>
        s1 == s0 \o <<Ev("get_providers", 1, 0)>>
    IN  IF IsInvalidName(provider_name)
        THEN [exc |-> InvalidNameError("fetch_latest"), prov |-> 0, steps |-> s0]
        ELSE IF Len(providers) = 0
        THEN [exc |-> NoProvidersError("fetch_latest"), prov |-> 0, steps |-> s1]
        ELSE LET g == MediaFetcher_get_provider(providers, provider_name, 1)
             IN  IF g.exc # ""
                 THEN [exc |-> IF IsValueOrKeyError(g.exc)
                               THEN InvalidNameError("fetch_latest") ELSE g.exc,
                       prov |-> 0, steps |-> s1 \o g.steps]
                 ELSE [exc |-> IF has_capability(providers[g.prov], FETCH_LATEST)
                               THEN "" ELSE NotSupportedError("fetch_latest"),
                       prov |-> g.prov,
                       steps |-> s1 \o g.steps \o <<Ev("has_capability", 1, g.prov)>>]

\* MediaFetcher.fetch_latest, up to `await provider.fetch_latest(limit=limit)`
fetch_latest_sync(providers, provider_name) ==
    LET s0 == <<Ev("get_providers", 1, 0)>>
        s1 == s0 \o <<Ev("validate_name", 1, 0)>>
    IN  IF Len(providers) = 0
        THEN [exc |-> NoProvidersError("fetch_latest"), prov |-> 0, steps |-> s0]
        ELSE IF IsInvalidName(provider_name)
        THEN [exc |-> InvalidNameError("fetch_latest"), prov |-> 0, steps |-> s1]
        ELSE LET g == MediaFetcher_get_provider(providers, provider_name, 1)
             IN  IF g.exc # ""
                 THEN [exc |-> IF IsValueOrKeyError(g.exc)
                               THEN InvalidNameError("fetch_latest") ELSE g.exc,
                       prov |-> 0, steps |-> s1 \o g.steps]
                 ELSE [exc |-> IF has_capability(providers[g.prov], FETCH_LATEST)
                               THEN "" ELSE NotSupportedError("fetch_latest"),
                       prov |-> g.prov,
                       steps |-> s1 \o g.steps \o <<Ev("has_capability", 1, g.prov)>>]

\* fetch_by_user without the capability check
fetch_by_user_sync_no_capability_check(providers, provider_name) ==
    LET s0 == <<Ev("get_providers", 1, 0)>>
        s1 == s0 \o <<Ev("validate_name", 1, 0)>>
    IN  IF Len(providers) = 0
        THEN [exc |-> NoProvidersError("fetch_by_user"), prov |-> 0, steps |-> s0]
        ELSE IF IsInvalidName(provider_name)
        THEN [exc |-> InvalidNameError("fetch_by_user"), prov |-> 0, steps |-> s1]
        ELSE LET g == MediaFetcher_get_provider(providers, provider_name, 1)
             IN  IF g.exc # ""
                 THEN [exc |-> IF IsValueOrKeyError(g.exc)
                               THEN InvalidNameError("fetch_by_user") ELSE g.exc,
                       prov |-> 0, steps |-> s1 \o g.steps]
                 ELSE [exc |-> "", prov |-> g.prov, steps |-> s1 \o g.steps]

\* MediaFetcher.fetch_by_user, up to `await provider.fetch_by_user(username, limit=limit)`
fetch_by_user_sync(providers, provider_name) ==
    LET s0 == <<Ev("get_providers", 1, 0)>>
        s1 == s0 \o <<Ev("validate_name", 1, 0)>>
    IN  IF Len(providers) = 0
        THEN [exc |-> NoProvidersError("fetch_by_user"), prov |-> 0, steps |-> s0]
        ELSE IF IsInvalidName(provider_name)
        THEN [exc |-> InvalidNameError("fetch_by_user"), prov |-> 0, steps |-> s1]
        ELSE LET g == MediaFetcher_get_provider(providers, provider_name, 1)
             IN  IF g.exc # ""
                 THEN [exc |-> IF IsValueOrKeyError(g.exc)
                               THEN InvalidNameError("fetch_by_user") ELSE g.exc,
                       prov |-> 0, steps |-> s1 \o g.steps]
                 ELSE [exc |-> IF has_capability(providers[g.prov], FETCH_BY_USER)
                               THEN "" ELSE NotSupportedError("fetch_by_user"),
                       prov |-> g.prov,
                       steps |-> s1 \o g.steps \o <<Ev("has_capability", 1, g.prov)>>]

\* MediaFetcher.fetch_by_tags, up to `await provider.fetch_by_tags(tags or [], limit=limit)`
fetch_by_tags_sync(providers, provider_name) ==
    LET s0 == <<Ev("get_providers", 1, 0)>>
        s1 == s0 \o <<Ev("validate_name", 1, 0)>>
    IN  IF Len(providers) = 0
        THEN [exc |-> NoProvidersError("fetch_by_tags"), prov |-> 0, steps |-> s0]
        ELSE IF IsInvalidName(provider_name)
        THEN [exc |-> InvalidNameError("fetch_by_tags"), prov |-> 0, steps |-> s1]
        ELSE LET g == MediaFetcher_get_provider(providers, provider_name, 1)
             IN  IF g.exc # ""
                 THEN [exc |-> IF IsValueOrKeyError(g.exc)
                               THEN InvalidNameError("fetch_by_tags") ELSE g.exc,
                       prov |-> 0, steps |-> s1 \o g.steps]
                 ELSE [exc |-> IF has_capability(providers[g.prov], FETCH_BY_TAGS)
                               THEN "" ELSE NotSupportedError("fetch_by_tags"),
                       prov |-> g.prov,
                       steps |-> s1 \o g.steps \o <<Ev("has_capability", 1, g.prov)>>]

\* fetch_by_tags handing on the tags as given
fetch_by_tags_argument_as_given(tags) == tags

\* the tags argument fetch_by_tags hands to the provider: `tags or []`
fetch_by_tags_argument(tags) == PyOr(tags, PyList(<<>>))

(***************************************************************************)
(* MediaUploader                                                           *)
(***************************************************************************)
\* upload without its capability check
upload_sync_no_capability_check(providers, provider_name) ==
    LET s0 == <<Ev("get_providers", 1, 0)>>
        s1 == s0 \o <<Ev("validate_name", 1, 0)>>
    IN  IF Len(providers) = 0
        THEN [exc |-> NoProvidersError("upload"), prov |-> 0, steps |-> s0]
        ELSE IF IsInvalidName(provider_name)
        THEN [exc |-> InvalidNameError("upload"), prov |-> 0, steps |-> s1]
        ELSE LET g == MediaUploader_get_provider(providers, provider_name, 1)
             IN  IF g.exc # ""
                 THEN [exc |-> IF IsValueOrKeyError(g.exc)
                               THEN InvalidNameError("upload") ELSE g.exc,
                       prov |-> 0, steps |-> s1 \o g.steps]
                 ELSE [exc |-> "", prov |-> g.prov, steps |-> s1 \o g.steps]

\* MediaUploader.upload, up to `await provider.upload([media])`
upload_sync(providers, provider_name) ==
    LET s0 == <<Ev("get_providers", 1, 0)>>
        s1 == s0 \o <<Ev("validate_name", 1, 0)>>
    IN  IF Len(providers) = 0
        THEN [exc |-> NoProvidersError("upload"), prov |-> 0, steps |-> s0]
        ELSE IF IsInvalidName(provider_name)
        THEN [exc |-> InvalidNameError("upload"), prov |-> 0, steps |-> s1]
        ELSE LET g == MediaUploader_get_provider(providers, provider_name, 1)
             IN  IF g.exc # ""
                 THEN [exc |-> IF IsValueOrKeyError(g.exc)
                               THEN InvalidNameError("upload") ELSE g.exc,
                       prov |-> 0, steps |-> s1 \o g.steps]
                 ELSE [exc |-> IF has_capability(providers[g.prov], UPLOAD)
                               THEN "" ELSE NotSupportedError("upload"),
                       prov |-> g.prov,
                       steps |-> s1 \o g.steps \o <<Ev("has_capability", 1, g.prov)>>]

\* the argument upload and upload_to_multiple hand to the provider: `[media]`
upload_argument(media) == PyList(<<media>>)

\* a turn of the loop without its capability check
upload_to_multiple_iteration_no_capability_check(providers, names, pos) ==
    LET provider_name == names[pos]
        s1 == <<Ev("validate_name", pos, 0)>>
    IN  IF IsInvalidName(provider_name)
        THEN [exc |-> InvalidNameError("upload_to_multiple"), prov |-> 0, steps |-> s1]
        ELSE LET g == MediaUploader_get_provider(providers, provider_name, pos)
             IN  IF g.exc # ""
                 THEN [exc |-> IF IsValueOrKeyError(g.exc)
                               THEN InvalidNameError("upload_to_multiple") ELSE g.exc,
                       prov |-> 0, steps |-> s1 \o g.steps]
                 ELSE [exc |-> "", prov |-> g.prov, steps |-> s1 \o g.steps]

\* MediaUploader.upload_to_multiple: one turn of the loop, for the name at
\* position pos, up to `await provider.upload([media])`
upload_to_multiple_iteration(providers, names, pos) ==
    LET provider_name == names[pos]
        s1 == <<Ev("validate_name", pos, 0)>>
    IN  IF IsInvalidName(provider_name)
        THEN [exc |-> InvalidNameError("upload_to_multiple"), prov |-> 0, steps |-> s1]
        ELSE LET g == MediaUploader_get_provider(providers, provider_name, pos)
             IN  IF g.exc # ""
                 THEN [exc |-> IF IsValueOrKeyError(g.exc)
                               THEN InvalidNameError("upload_to_multiple") ELSE g.exc,
                       prov |-> 0, steps |-> s1 \o g.steps]
                 ELSE [exc |-> IF has_capability(providers[g.prov], UPLOAD)
                               THEN "" ELSE NotSupportedError("upload_to_multiple"),
                       prov |-> g.prov,
                       steps |-> s1 \o g.steps \o <<Ev("has_capability", pos, g.prov)>>]

\* upload_to_multiple skipping a name that fails instead of raising
RECURSIVE upload_to_multiple_from_skipping(_, _, _)
upload_to_multiple_from_skipping(providers, names, pos) ==
    IF pos > Len(names)
    THEN [exc |-> "", prov |-> 0, steps |-> <<>>, finished |-> TRUE]
    ELSE LET r == upload_to_multiple_iteration(providers, names, pos)
         IN  IF r.exc # ""
             THEN LET n == upload_to_multiple_from_skipping(providers, names, pos + 1)
                  IN  [n EXCEPT !.steps = r.steps \o n.steps]
             ELSE [exc |-> r.exc, prov |-> r.prov, steps |-> r.steps, finished |-> FALSE]

\* MediaUploader.upload_to_multiple from the turn for position pos on, up to
\* the next await; finished when the loop has run out of names
upload_to_multiple_from(providers, names, pos) ==
    IF pos > Len(names)
    THEN [exc |-> "", prov |-> 0, steps |-> <<>>, finished |-> TRUE]
    ELSE LET r == upload_to_multiple_iteration(providers, names, pos)
         IN  [exc |-> r.exc, prov |-> r.prov, steps |-> r.steps, finished |-> FALSE]

\* upload_to_multiple checking every name before it uploads to any provider
upload_to_multiple_sync_validating_all_first(providers, names) ==
    LET s0 == <<Ev("get_providers", 0, 0)>>
        bad == { i \in 1..Len(names) :
                   upload_to_multiple_iteration(providers, names, i).exc # "" }
    IN  IF Len(providers) = 0
        THEN [exc |-> NoProvidersError("upload_to_multiple"), prov |-> 0,
              steps |-> s0, finished |-> FALSE]
        ELSE IF bad # {}
        THEN LET r == upload_to_multiple_iteration(providers, names,
                          CHOOSE i \in bad : \A j \in bad : i <= j)
             IN  [exc |-> r.exc, prov |-> 0, steps |-> s0, finished |-> FALSE]
        ELSE LET r == upload_to_multiple_from(providers, names, 1)
             IN  [r EXCEPT !.steps = s0 \o r.steps]

\* MediaUploader.upload_to_multiple from its entry, up to the first await
upload_to_multiple_sync(providers, names) ==
    LET s0 == <<Ev("get_providers", 0, 0)>>
    IN  IF Len(providers) = 0
        THEN [exc |-> NoProvidersError("upload_to_multiple"), prov |-> 0,
              steps |-> s0, finished |-> FALSE]
        ELSE LET r == upload_to_multiple_from(providers, names, 1)
             IN  [r EXCEPT !.steps = s0 \o r.steps]

\* a dict keyed by the normalized provider name: two keys of the same
\* normalized form are one entry
DictSet_by_normalized_name(d, key, value) ==
    IF \E k \in 1..Len(d) : ProviderName(d[k].key).name = ProviderName(key).name
    THEN [k \in 1..Len(d) |->
             IF ProviderName(d[k].key).name = ProviderName(key).name
             THEN [key |-> d[k].key, value |-> value] ELSE d[k]]
    ELSE Append(d, [key |-> key, value |-> value])

\* results[provider_name] = value on a dict kept as its entries in insertion
\* order: an existing key keeps its place
DictSet(d, key, value) ==
    IF \E k \in 1..Len(d) : d[k].key = key
    THEN [k \in 1..Len(d) |-> IF d[k].key = key THEN [key |-> key, value |-> value] ELSE d[k]]
    ELSE Append(d, [key |-> key, value |-> value])

\* what each fetch handler returns when the awaited operation returned page
fetch_latest_return(page) == page
\* fetch_by_user building its own page without the cursor
fetch_by_user_return_without_cursor(page) == [page EXCEPT !.next_cursor = PyNone]
fetch_by_user_return(page) == page
fetch_by_tags_return(page) == page

\* what upload returns when provider.upload([media]) returned ret
upload_result_on_return(ret) == TRUE
\* upload reporting success also when the provider raised
upload_result_on_raise_true == TRUE
\* what upload returns when provider.upload([media]) raised an Exception
upload_result_on_raise == FALSE
\* what upload_to_multiple records when provider.upload([media]) returned ret
upload_to_multiple_result_on_return(ret) == TRUE
\* upload_to_multiple recording success also when the provider raised
upload_to_multiple_result_on_raise_true == TRUE
\* what upload_to_multiple records when provider.upload([media]) raised
upload_to_multiple_result_on_raise == FALSE

(***************************************************************************)
(* Page                                                                    *)
(***************************************************************************)
PyBool(b) == [t |-> "bool", v |-> <<IF b THEN "True" ELSE "False">>]
PyTrue == PyBool(TRUE)
PyFalse == PyBool(FALSE)

\* a key a dict does not have
Missing == [t |-> "missing", v |-> <<>>]
\* data.get(key, default), data being a record of values or Missing
DictGet(data, key, default) == IF data[key] = Missing THEN default ELSE data[key]

TypeError == "TypeError"
NonListItems == "CannotCreatePageWithNonListItemsException"
NonBooleanHasMore == "CannotCreatePageWithNonBooleanHasMoreException"
NonStringNextCursor == "CannotCreatePageWithNonStringNextCursorException"
HasMoreTrueButNoNextCursor == "CannotCreatePageWithHasMoreTrueButNoNextCursorException"
NextCursorSetButNoMoreItems == "CannotCreatePageWithNextCursorSetButNoMoreItemsException"

NoPageObject == [items |-> <<>>, next_cursor |-> PyNone, has_more |-> PyFalse]

\* Page.__init__ with the relational checks before the type checks
Page_init_relations_first(items, next_cursor, has_more) ==
    IF Truthy(has_more) /\ next_cursor = PyNone
    THEN [exc |-> HasMoreTrueButNoNextCursor, page |-> NoPageObject]
    ELSE IF ~Truthy(has_more) /\ next_cursor # PyNone
    THEN [exc |-> NextCursorSetButNoMoreItems, page |-> NoPageObject]
    ELSE IF items.t # "list"
    THEN [exc |-> NonListItems, page |-> NoPageObject]
    ELSE IF has_more.t # "bool"
    THEN [exc |-> NonBooleanHasMore, page |-> NoPageObject]
    ELSE IF next_cursor # PyNone /\ next_cursor.t # "str"
    THEN [exc |-> NonStringNextCursor, page |-> NoPageObject]
    ELSE [exc |-> "",
          page |-> [items |-> items.v, next_cursor |-> next_cursor, has_more |-> has_more]]

\* Page.__init__ without the check that a cursor comes with has_more
Page_init_accepting_cursor_without_more(items, next_cursor, has_more) ==
    IF items.t # "list"
    THEN [exc |-> NonListItems, page |-> NoPageObject]
    ELSE IF has_more.t # "bool"
    THEN [exc |-> NonBooleanHasMore, page |-> NoPageObject]
    ELSE IF next_cursor # PyNone /\ next_cursor.t # "str"
    THEN [exc |-> NonStringNextCursor, page |-> NoPageObject]
    ELSE IF Truthy(has_more) /\ next_cursor = PyNone
    THEN [exc |-> HasMoreTrueButNoNextCursor, page |-> NoPageObject]
    ELSE [exc |-> "",
          page |-> [items |-> items.v, next_cursor |-> next_cursor, has_more |-> has_more]]

\* Page.__init__: the exception raised, or the page with its items as a tuple
Page_init(items, next_cursor, has_more) ==
    IF items.t # "list"
    THEN [exc |-> NonListItems, page |-> NoPageObject]
    ELSE IF has_more.t # "bool"
    THEN [exc |-> NonBooleanHasMore, page |-> NoPageObject]
    ELSE IF next_cursor # PyNone /\ next_cursor.t # "str"
    THEN [exc |-> NonStringNextCursor, page |-> NoPageObject]
    ELSE IF Truthy(has_more) /\ next_cursor = PyNone
    THEN [exc |-> HasMoreTrueButNoNextCursor, page |-> NoPageObject]
    ELSE IF ~Truthy(has_more) /\ next_cursor # PyNone
    THEN [exc |-> NextCursorSetButNoMoreItems, page |-> NoPageObject]
    ELSE [exc |-> "",
          page |-> [items |-> items.v, next_cursor |-> next_cursor, has_more |-> has_more]]

\* list(x): a list's elements, a str's characters; None, int and bool are
\* not iterable
PyListOf(x) ==
    IF x.t \in {"list", "str"}
    THEN [exc |-> "", list |-> PyList(x.v)]
    ELSE [exc |-> TypeError, list |-> PyList(<<>>)]

\* the arguments Page.from_dict hands to the constructor
Page_from_dict_arguments(data) ==
    [items |-> PyListOf(DictGet(data, "items", PyList(<<>>))),
     next_cursor |-> DictGet(data, "next_cursor", PyNone),
     has_more |-> DictGet(data, "has_more", PyFalse)]

\* Page.from_dict
Page_from_dict(data) ==
    LET a == Page_from_dict_arguments(data)
    IN  IF a.items.exc # ""
        THEN [exc |-> a.items.exc, page |-> NoPageObject]
        ELSE Page_init(a.items.list, a.next_cursor, a.has_more)

\* Page.to_dict
Page_to_dict(self) ==
    [items |-> PyList(self.items), next_cursor |-> self.next_cursor,
     has_more |-> self.has_more]

\* Page.__eq__ between two pages
Page_eq(self, other) ==
    /\ self.items = other.items
    /\ self.next_cursor = other.next_cursor
    /\ self.has_more = other.has_more

(***************************************************************************)
(* Enumerations: a member is known by its name, member.value is its wire   *)
(* string, and Enum(value) looks the member up by that string              *)
(***************************************************************************)
ValueError == "ValueError"

\* ExternalProviderCapability's members and their values
ExternalProviderCapability_value ==
    [m \in ExternalProviderCapability |-> PyStr(<<m>>)]

\* ContentType's members and their values
ContentType_value ==
    [m \in {"IMAGE_JPEG", "IMAGE_PNG", "VIDEO_MP4", "VIDEO_WEBM", "GIF"} |->
        CASE m = "IMAGE_JPEG" -> PyStr(<<"image/jpeg">>)
          [] m = "IMAGE_PNG"  -> PyStr(<<"image/png">>)
          [] m = "VIDEO_MP4"  -> PyStr(<<"video/mp4">>)
          [] m = "VIDEO_WEBM" -> PyStr(<<"video/webm">>)
          [] m = "GIF"        -> PyStr(<<"image/gif">>)]

\* MatureRating's members and their values
MatureRating_value ==
    [m \in {"PG", "PG_13", "R", "X", "XXX"} |->
        CASE m = "PG"    -> PyStr(<<"pg">>)
          [] m = "PG_13" -> PyStr(<<"pg-13">>)
          [] m = "R"     -> PyStr(<<"r">>)
          [] m = "X"     -> PyStr(<<"x">>)
          [] m = "XXX"   -> PyStr(<<"xxx">>)]

\* Enum(value): the member whose value is value, ValueError when there is none
EnumByValue(values, value) ==
    IF \E m \in DOMAIN values : values[m] = value
    THEN [exc |-> "", member |-> CHOOSE m \in DOMAIN values : values[m] = value]
    ELSE [exc |-> ValueError, member |-> ""]

(***************************************************************************)
(* ExternalProviderInfo as a value object                                  *)
(***************************************************************************)
NoInfo ==
    [t |-> "none", v |-> <<>>, name |-> <<>>, description |-> PyNone,
     capabilities |-> <<>>]

\* ExternalProviderInfo.__init__: name is a ProviderName or None,
\* capabilities a list, description any value
ExternalProviderInfo_init(name, capabilities, description) ==
    IF name.t # "ProviderName" \/ Strip(name.v) = <<>>
    THEN [exc |-> "CannotCreateExternalProviderInfoWithEmptyNameException", info |-> NoInfo]
    ELSE IF capabilities = <<>>
    THEN [exc |-> "CannotCreateExternalProviderInfoWithEmptyCapabilitiesException", info |-> NoInfo]
    ELSE IF \E k \in 1..Len(capabilities) : capabilities[k] \notin ExternalProviderCapability
    THEN [exc |-> "CannotCreateExternalProviderInfoWithInvalidCapabilitiesException", info |-> NoInfo]
    ELSE [exc |-> "",
          info |-> [t |-> "ExternalProviderInfo", v |-> <<>>, name |-> name.v,
                    description |-> description, capabilities |-> capabilities]]

\* ExternalProviderInfo.to_dict
ExternalProviderInfo_to_dict(self) ==
    [name |-> PyStr(self.name),
     description |-> self.description,
     capabilities |-> [k \in 1..Len(self.capabilities) |->
                          ExternalProviderCapability_value[self.capabilities[k]]]]

\* ExternalProviderInfo.from_dict
ExternalProviderInfo_from_dict(data) ==
    LET name == ProviderName(data.name)
        caps == [k \in 1..Len(data.capabilities) |->
                    EnumByValue(ExternalProviderCapability_value, data.capabilities[k])]
    IN  IF name.exc # ""
        THEN [exc |-> name.exc, info |-> NoInfo]
        ELSE IF \E k \in 1..Len(caps) : caps[k].exc # ""
        THEN [exc |-> ValueError, info |-> NoInfo]
        ELSE ExternalProviderInfo_init(PyProviderName(name.name),
                                       [k \in 1..Len(caps) |-> caps[k].member],
                                       data.description)

\* ExternalProviderInfo.__eq__ between two infos
ExternalProviderInfo_eq(self, other) ==
    /\ self.name = other.name
    /\ self.description = other.description
    /\ {self.capabilities[k] : k \in 1..Len(self.capabilities)}
           = {other.capabilities[k] : k \in 1..Len(other.capabilities)}

\* ExternalProviderInfo.__str__, as the sequence of its pieces: the values of
\* the capabilities in the order of the list, joined by ", "
ExternalProviderInfo_str(self) ==
    LET n == Len(self.capabilities)
        value(k) == ExternalProviderCapability_value[self.capabilities[k]].v
        joined[k \in 0..n] ==
            IF k = 0 THEN <<>>
            ELSE IF k = 1 THEN value(1)
            ELSE joined[k - 1] \o <<", ">> \o value(k)
    IN  <<"ExternalProviderInfo(name=">> \o self.name
            \o <<", description='">>
            \o (IF self.description = PyNone THEN <<"None">> ELSE self.description.v)
            \o <<"', capabilities=[">> \o joined[n] \o <<"])">>

(***************************************************************************)
(* ContentMetadata and AiMetadata, frozen dataclasses                      *)
(***************************************************************************)
NoContentMetadata ==
    [content_type |-> "", dimensions |-> [width |-> 0, height |-> 0],
     file_size_bytes |-> 0]

\* ContentMetadata(content_type, dimensions, file_size_bytes)
ContentMetadata(content_type, dimensions, file_size_bytes) ==
    [content_type |-> content_type, dimensions |-> dimensions,
     file_size_bytes |-> file_size_bytes]

\* ContentMetadata.to_dict
ContentMetadata_to_dict(self) ==
    [content_type |-> ContentType_value[self.content_type],
     dimensions |-> self.dimensions,
     file_size_bytes |-> self.file_size_bytes]

\* ContentMetadata.from_dict
ContentMetadata_from_dict(data) ==
    LET content_type == EnumByValue(ContentType_value, data.content_type)
    IN  IF content_type.exc # ""
        THEN [exc |-> content_type.exc, content_metadata |-> NoContentMetadata]
        ELSE [exc |-> "",
              content_metadata |-> ContentMetadata(content_type.member, data.dimensions,
                                                   data.file_size_bytes)]

\* the __eq__ the dataclass generates: field by field
ContentMetadata_eq(self, other) ==
    /\ self.content_type = other.content_type
    /\ self.dimensions = other.dimensions
    /\ self.file_size_bytes = other.file_size_bytes

\* AiMetadata(is_ai_generated)
AiMetadata(is_ai_generated) ==
    [t |-> "AiMetadata", v |-> <<>>, is_ai_generated |-> is_ai_generated]

\* AiMetadata.to_dict: a dict with one key
AiMetadata_to_dict(self) ==
    [t |-> "dict", v |-> <<"is_ai_generated">>, is_ai_generated |-> self.is_ai_generated]

\* AiMetadata.from_dict
AiMetadata_from_dict(data) == AiMetadata(data.is_ai_generated)

\* the __eq__ the dataclass generates
AiMetadata_eq(self, other) ==
    /\ other.t = "AiMetadata"
    /\ self.is_ai_generated = other.is_ai_generated

(***************************************************************************)
(* ExternalMedia                                                           *)
(***************************************************************************)
MaxTitleLength == 255
MaxDescriptionLength == 2048
MaxTagCount == 30

InvalidURL == "CannotCreateExternalMediaWithInvalidURLException"
EmptyTitle == "CannotCreateExternalMediaWithEmptyTitleException"
TitleExceedingMaxLength == "CannotCreateExternalMediaWithTitleExceedingMaxLengthException"
DescriptionExceedingMaxLength ==
    "CannotCreateExternalMediaWithDescriptionExceedingMaxLengthException"
TooManyTags == "CannotCreateExternalMediaWithTooManyTagsException"
InvalidProvider == "CannotCreateExternalMediaWithInvalidProviderException"

\* s.find(c): the first position of c in s, 0 when there is none
Find(s, c) ==
    IF \E i \in 1..Len(s) : s[i] = c
    THEN CHOOSE i \in 1..Len(s) : s[i] = c /\ \A j \in 1..(i - 1) : s[j] # c
    ELSE 0

IsAlpha(c) == c \in {"h", "x"}

\* urllib.parse.urlparse(url): the scheme is what stands before the first
\* ":" when it starts with a letter and holds scheme characters only; the
\* netloc is what follows "//" up to the next "/", "?" or "#"; a netloc with
\* one bracket only is a ValueError
urlparse(url) ==
    LET i == Find(url, ":")
        has_scheme == /\ i > 1
                      /\ IsAlpha(url[1])
                      /\ \A k \in 1..(i - 1) : IsAlpha(url[k]) \/ url[k] \in {"1", "+", "-", "."}
        scheme == IF has_scheme THEN SubSeq(url, 1, i - 1) ELSE <<>>
        rest == IF has_scheme THEN SubSeq(url, i + 1, Len(url)) ELSE url
        has_netloc == Len(rest) >= 2 /\ rest[1] = "/" /\ rest[2] = "/"
        after == IF has_netloc THEN SubSeq(rest, 3, Len(rest)) ELSE <<>>
        ends == {k \in 1..Len(after) : after[k] \in {"/", "?", "#"}}
        delim == IF ends = {} THEN Len(after) + 1
                 ELSE CHOOSE k \in ends : \A j \in ends : k <= j
        netloc == SubSeq(after, 1, delim - 1)
    IN  IF (Find(netloc, "[") > 0) # (Find(netloc, "]") > 0)
        THEN [exc |-> ValueError, scheme |-> <<>>, netloc |-> <<>>]
        ELSE [exc |-> "", scheme |-> scheme, netloc |-> netloc]

\* ExternalMedia._is_valid_url
is_valid_url(url) ==
    IF Find(url, " ") # 0 THEN FALSE
    ELSE LET result == urlparse(url)
         IN  IF result.exc # "" THEN FALSE
             ELSE result.scheme # <<>> /\ result.netloc # <<>>

NoMedia ==
    [url |-> <<>>, title |-> <<>>, description |-> <<>>,
     content_metadata |-> NoContentMetadata, tags |-> <<>>, mature_rating |-> "",
     ai_metadata |-> PyNone, provider |-> NoInfo]

\* the media the constructor stores once every check has passed
StoredMedia(a) ==
    [exc |-> "",
     media |-> [url |-> a.url.v, title |-> a.title.v, description |-> a.description.v,
                content_metadata |-> a.content_metadata, tags |-> a.tags.v,
                mature_rating |-> a.mature_rating, ai_metadata |-> a.ai_metadata,
                provider |-> a.provider]]

\* ExternalMedia.__init__ checking the lengths before the url and the title
ExternalMedia_init_lengths_first(a) ==
    IF Len(a.title.v) > MaxTitleLength
    THEN [exc |-> TitleExceedingMaxLength, media |-> NoMedia]
    ELSE IF Len(a.description.v) > MaxDescriptionLength
    THEN [exc |-> DescriptionExceedingMaxLength, media |-> NoMedia]
    ELSE IF Len(a.tags.v) > MaxTagCount
    THEN [exc |-> TooManyTags, media |-> NoMedia]
    ELSE IF ~Truthy(a.url) \/ a.url.t # "str" \/ ~is_valid_url(a.url.v)
    THEN [exc |-> InvalidURL, media |-> NoMedia]
    ELSE IF ~Truthy(a.title) \/ a.title.t # "str" \/ Strip(a.title.v) = <<>>
    THEN [exc |-> EmptyTitle, media |-> NoMedia]
    ELSE IF ~Truthy(a.provider) \/ a.provider.t # "ExternalProviderInfo"
    THEN [exc |-> InvalidProvider, media |-> NoMedia]
    ELSE StoredMedia(a)

\* ExternalMedia.__init__ turning away a list of MaxTagCount tags
ExternalMedia_init_fewer_tags(a) ==
    IF ~Truthy(a.url) \/ a.url.t # "str" \/ ~is_valid_url(a.url.v)
    THEN [exc |-> InvalidURL, media |-> NoMedia]
    ELSE IF ~Truthy(a.title) \/ a.title.t # "str" \/ Strip(a.title.v) = <<>>
    THEN [exc |-> EmptyTitle, media |-> NoMedia]
    ELSE IF Len(a.title.v) > MaxTitleLength
    THEN [exc |-> TitleExceedingMaxLength, media |-> NoMedia]
    ELSE IF Len(a.description.v) > MaxDescriptionLength
    THEN [exc |-> DescriptionExceedingMaxLength, media |-> NoMedia]
    ELSE IF Len(a.tags.v) >= MaxTagCount
    THEN [exc |-> TooManyTags, media |-> NoMedia]
    ELSE IF ~Truthy(a.provider) \/ a.provider.t # "ExternalProviderInfo"
    THEN [exc |-> InvalidProvider, media |-> NoMedia]
    ELSE StoredMedia(a)

\* ExternalMedia.__init__, a being its arguments by name: url and title are
\* any value, description a str, tags a list, provider any value;
\* content_metadata, mature_rating and ai_metadata are stored as given
ExternalMedia_init(a) ==
    IF ~Truthy(a.url) \/ a.url.t # "str" \/ ~is_valid_url(a.url.v)
    THEN [exc |-> InvalidURL, media |-> NoMedia]
    ELSE IF ~Truthy(a.title) \/ a.title.t # "str" \/ Strip(a.title.v) = <<>>
    THEN [exc |-> EmptyTitle, media |-> NoMedia]
    ELSE IF Len(a.title.v) > MaxTitleLength
    THEN [exc |-> TitleExceedingMaxLength, media |-> NoMedia]
    ELSE IF Len(a.description.v) > MaxDescriptionLength
    THEN [exc |-> DescriptionExceedingMaxLength, media |-> NoMedia]
    ELSE IF Len(a.tags.v) > MaxTagCount
    THEN [exc |-> TooManyTags, media |-> NoMedia]
    ELSE IF ~Truthy(a.provider) \/ a.provider.t # "ExternalProviderInfo"
    THEN [exc |-> InvalidProvider, media |-> NoMedia]
    ELSE StoredMedia(a)

\* ExternalMedia.to_dict leaving out an ai_metadata whose flag is false
ExternalMedia_to_dict_dropping_false_flag(self) ==
    [url |-> PyStr(self.url),
     title |-> PyStr(self.title),
     description |-> PyStr(self.description),
     content_metadata |-> ContentMetadata_to_dict(self.content_metadata),
     tags |-> PyList(self.tags),
     mature_rating |-> MatureRating_value[self.mature_rating],
     ai_metadata |-> IF Truthy(self.ai_metadata) /\ Truthy(self.ai_metadata.is_ai_generated)
                     THEN AiMetadata_to_dict(self.ai_metadata)
                     ELSE PyNone,
     provider |-> ExternalProviderInfo_to_dict(self.provider)]

\* ExternalMedia.to_dict
ExternalMedia_to_dict(self) ==
    [url |-> PyStr(self.url),
     title |-> PyStr(self.title),
     description |-> PyStr(self.description),
     content_metadata |-> ContentMetadata_to_dict(self.content_metadata),
     tags |-> PyList(self.tags),
     mature_rating |-> MatureRating_value[self.mature_rating],
     ai_metadata |-> IF Truthy(self.ai_metadata)
                     THEN AiMetadata_to_dict(self.ai_metadata)
                     ELSE PyNone,
     provider |-> ExternalProviderInfo_to_dict(self.provider)]

\* ExternalMedia.from_dict: the nested from_dict calls and the enum lookup
\* run before the constructor and may raise
ExternalMedia_from_dict(data) ==
    LET content_metadata == ContentMetadata_from_dict(data.content_metadata)
        mature_rating == EnumByValue(MatureRating_value, data.mature_rating)
        ai_metadata == IF Truthy(DictGet(data, "ai_metadata", PyNone))
                       THEN AiMetadata_from_dict(data.ai_metadata)
                       ELSE PyNone
        provider == ExternalProviderInfo_from_dict(data.provider)
    IN  IF content_metadata.exc # ""
        THEN [exc |-> content_metadata.exc, media |-> NoMedia]
        ELSE IF mature_rating.exc # ""
        THEN [exc |-> mature_rating.exc, media |-> NoMedia]
        ELSE IF provider.exc # ""
        THEN [exc |-> provider.exc, media |-> NoMedia]
        ELSE ExternalMedia_init(
                 [url |-> data.url, title |-> data.title,
                  description |-> DictGet(data, "description", PyStr(<<>>)),
                  content_metadata |-> content_metadata.content_metadata,
                  tags |-> DictGet(data, "tags", PyList(<<>>)),
                  mature_rating |-> mature_rating.member,
                  ai_metadata |-> ai_metadata, provider |-> provider.info])

\* ExternalMedia.__eq__ between two media
ExternalMedia_eq(self, other) ==
    /\ self.url = other.url
    /\ self.title = other.title
    /\ self.description = other.description
    /\ ContentMetadata_eq(self.content_metadata, other.content_metadata)
    /\ self.tags = other.tags
    /\ self.mature_rating = other.mature_rating
    /\ IF self.ai_metadata.t = "AiMetadata"
       THEN AiMetadata_eq(self.ai_metadata, other.ai_metadata)
       ELSE self.ai_metadata = other.ai_metadata
    /\ ExternalProviderInfo_eq(self.provider, other.provider)

\* ExternalMedia.__hash__: the tuple that is hashed. The hash is a function
\* of this tuple, so two media with the same tuple have the same hash; the
\* parts given through str() are the sequences of the pieces of the text
ExternalMedia_hash(self) ==
    LET cm == self.content_metadata
    IN  << self.url, self.title, self.description,
           <<"ContentMetadata(content_type=<ContentType.", cm.content_type, ": '">>
               \o ContentType_value[cm.content_type].v
               \o <<"'>, dimensions={'width': ", ToString(cm.dimensions.width),
                    ", 'height': ", ToString(cm.dimensions.height),
                    "}, file_size_bytes=", ToString(cm.file_size_bytes), ")">>,
           self.tags,
           self.mature_rating,
           IF self.ai_metadata = PyNone THEN <<"None">>
           ELSE <<"AiMetadata(is_ai_generated=",
                  IF self.ai_metadata.is_ai_generated = PyTrue THEN "True" ELSE "False", ")">>,
           ExternalProviderInfo_str(self.provider) >>

(***************************************************************************)
(* State                                                                   *)
(***************************************************************************)
VARIABLES
    registry,     \* what provider_registry.get_providers() returns
    call,         \* the call in flight or just finished, with its arguments
    pc,           \* "idle", "awaiting" (the provider's operation runs), "done"
    idx,          \* position of the name whose provider is awaited
    results,      \* upload_to_multiple's results dict
    outcome,      \* what the call returned or raised
    trace,        \* what the handler did to its collaborators, in order
    invocations,  \* the provider operations invoked, with their arguments
    provided,     \* what each invoked operation returned or raised
    built         \* the value object under construction: its inputs, then its outcome

vars == <<registry, call, pc, idx, results, outcome, trace, invocations, provided,
         built>>

NoCall ==
    [op |-> "none", provider_name |-> PyNone, limit |-> 0, username |-> PyNone,
     tags |-> PyNone, media |-> "", providers |-> <<>>]

NoOutcome == [kind |-> "none", exc |-> "", page |-> NoPage, bool |-> FALSE, dict |-> <<>>]
Raised(exc) == [NoOutcome EXCEPT !.kind = "raise", !.exc = exc]
ReturnedPage(p) == [NoOutcome EXCEPT !.kind = "page", !.page = p]
ReturnedBool(b) == [NoOutcome EXCEPT !.kind = "bool", !.bool = b]
ReturnedDict(d) == [NoOutcome EXCEPT !.kind = "dict", !.dict = d]

Invocation(prov, op, pos, arg, limit) ==
    [prov |-> prov, op |-> op, pos |-> pos, arg |-> arg, limit |-> limit]

ProvidedReturn(ret) == [kind |-> "return", ret |-> ret, page |-> NoPage]
ProvidedPage(p) == [kind |-> "return", ret |-> PyNone, page |-> p]
ProvidedRaise == [kind |-> "raise", ret |-> PyNone, page |-> NoPage]

\* no value object is under construction
NoBuilt ==
    [cls |-> "none", via |-> "", phase |-> "", args |-> <<>>, reached |-> FALSE,
     ctor |-> <<>>, exc |-> "", obj |-> <<>>, back |-> <<>>, equal |-> FALSE]

Init ==
    /\ registry \in Registries
    /\ call = NoCall
    /\ pc = "idle"
    /\ idx = 0
    /\ results = <<>>
    /\ outcome = NoOutcome
    /\ trace = <<>>
    /\ invocations = <<>>
    /\ provided = <<>>
    /\ built = NoBuilt

(***************************************************************************)
(* Actions                                                                 *)
(***************************************************************************)
\* a handler that takes the providers it was given out of the registry
Enter_draining_registry(c, r, arg, limit) ==
    /\ call' = c
    /\ results' = <<>>
    /\ provided' = <<>>
    /\ IF r.exc # ""
       THEN /\ pc' = "done"
            /\ idx' = 0
            /\ outcome' = Raised(r.exc)
            /\ trace' = r.steps
            /\ invocations' = <<>>
       ELSE /\ pc' = "awaiting"
            /\ idx' = 1
            /\ outcome' = NoOutcome
            /\ trace' = r.steps \o <<Ev("start", 1, r.prov)>>
            /\ invocations' = <<Invocation(r.prov, RequiredCapability(c.op), 1, arg, limit)>>
    /\ registry' = IF registry = <<>> THEN registry ELSE Tail(registry)
    /\ UNCHANGED built

\* a handler runs from its entry to its first await or to the error it
\* raises; c is the call, r what the handler did, arg and limit what it
\* hands to the provider's operation
Enter(c, r, arg, limit) ==
    /\ call' = c
    /\ results' = <<>>
    /\ provided' = <<>>
    /\ IF r.exc # ""
       THEN /\ pc' = "done"
            /\ idx' = 0
            /\ outcome' = Raised(r.exc)
            /\ trace' = r.steps
            /\ invocations' = <<>>
       ELSE /\ pc' = "awaiting"
            /\ idx' = 1
            /\ outcome' = NoOutcome
            /\ trace' = r.steps \o <<Ev("start", 1, r.prov)>>
            /\ invocations' = <<Invocation(r.prov, RequiredCapability(c.op), 1, arg, limit)>>
    /\ UNCHANGED <<registry, built>>

fetch_latest(provider_name, limit) ==
    /\ pc = "idle"
    /\ Enter([NoCall EXCEPT !.op = "fetch_latest", !.provider_name = provider_name,
                         !.limit = limit],
          fetch_latest_sync(registry, provider_name), PyNone, limit)

fetch_by_user(provider_name, username, limit) ==
    /\ pc = "idle"
    /\ Enter([NoCall EXCEPT !.op = "fetch_by_user", !.provider_name = provider_name,
                         !.username = username, !.limit = limit],
          fetch_by_user_sync(registry, provider_name), username, limit)

fetch_by_tags(provider_name, tags, limit) ==
    /\ pc = "idle"
    /\ Enter([NoCall EXCEPT !.op = "fetch_by_tags", !.provider_name = provider_name,
                         !.tags = tags, !.limit = limit],
          fetch_by_tags_sync(registry, provider_name), fetch_by_tags_argument(tags), limit)

upload(provider_name, media) ==
    /\ pc = "idle"
    /\ Enter([NoCall EXCEPT !.op = "upload", !.provider_name = provider_name,
                         !.media = media],
          upload_sync(registry, provider_name), upload_argument(media), 0)

\* upload_to_multiple goes on with the turn for position pos: r is what it
\* does up to the next await, the end of the loop or the error it raises;
\* res, tr and inv are the results, the trace and the invocations so far
Proceed(r, res, tr, inv, media, pos) ==
    /\ results' = res
    /\ IF r.exc # ""
       THEN /\ pc' = "done"
            /\ idx' = 0
            /\ outcome' = Raised(r.exc)
            /\ trace' = tr \o r.steps
            /\ invocations' = inv
       ELSE IF r.finished
       THEN /\ pc' = "done"
            /\ idx' = 0
            /\ outcome' = ReturnedDict(res)
            /\ trace' = tr \o r.steps
            /\ invocations' = inv
       ELSE /\ pc' = "awaiting"
            /\ idx' = pos
            /\ outcome' = NoOutcome
            /\ trace' = tr \o r.steps \o <<Ev("start", pos, r.prov)>>
            /\ invocations' = Append(inv,
                   Invocation(r.prov, UPLOAD, pos, upload_argument(media), 0))

upload_to_multiple(media, providers) ==
    /\ pc = "idle"
    /\ call' = [NoCall EXCEPT !.op = "upload_to_multiple", !.media = media,
                              !.providers = providers]
    /\ provided' = <<>>
    /\ Proceed(upload_to_multiple_sync(registry, providers), <<>>, <<>>, <<>>, media, 1)
    /\ UNCHANGED <<registry, built>>

\* the awaited fetch operation returns page: the handler returns
ProviderFetchReturns(page) ==
    /\ pc = "awaiting"
    /\ call.op \in {"fetch_latest", "fetch_by_user", "fetch_by_tags"}
    /\ provided' = Append(provided, ProvidedPage(page))
    /\ trace' = Append(trace, Ev("finish", idx, invocations[Len(invocations)].prov))
    /\ outcome' = ReturnedPage(CASE call.op = "fetch_latest"  -> fetch_latest_return(page)
                                 [] call.op = "fetch_by_user" -> fetch_by_user_return(page)
                                 [] call.op = "fetch_by_tags" -> fetch_by_tags_return(page))
    /\ pc' = "done"
    /\ idx' = 0
    /\ UNCHANGED <<registry, call, results, invocations, built>>

\* a fetch handler that catches the provider's exception and returns an
\* empty page
ProviderFetchRaises_returning_empty_page ==
    /\ pc = "awaiting"
    /\ call.op \in {"fetch_latest", "fetch_by_user", "fetch_by_tags"}
    /\ provided' = Append(provided, ProvidedRaise)
    /\ trace' = Append(trace, Ev("finish", idx, invocations[Len(invocations)].prov))
    /\ outcome' = ReturnedPage(NoPage)
    /\ pc' = "done"
    /\ idx' = 0
    /\ UNCHANGED <<registry, call, results, invocations, built>>

\* the awaited fetch operation raises: the handler has no except clause
ProviderFetchRaises ==
    /\ pc = "awaiting"
    /\ call.op \in {"fetch_latest", "fetch_by_user", "fetch_by_tags"}
    /\ provided' = Append(provided, ProvidedRaise)
    /\ trace' = Append(trace, Ev("finish", idx, invocations[Len(invocations)].prov))
    /\ outcome' = Raised(ProviderError)
    /\ pc' = "done"
    /\ idx' = 0
    /\ UNCHANGED <<registry, call, results, invocations, built>>

\* the awaited provider.upload([media]) is over, having returned or raised
\* (p): upload returns b; upload_to_multiple records b and goes on
UploadOver(p, b) ==
    LET tr == Append(trace, Ev("finish", idx, invocations[Len(invocations)].prov))
    IN  /\ pc = "awaiting"
        /\ provided' = Append(provided, p)
        /\ IF call.op = "upload"
           THEN /\ outcome' = ReturnedBool(b)
                /\ trace' = tr
                /\ pc' = "done"
                /\ idx' = 0
                /\ UNCHANGED <<results, invocations>>
           ELSE Proceed(upload_to_multiple_from(registry, call.providers, idx + 1),
                        DictSet(results, call.providers[idx], b), tr, invocations,
                        call.media, idx + 1)
        /\ UNCHANGED <<registry, call, built>>

\* the awaited provider.upload([media]) returns ret
ProviderUploadReturns(ret) ==
    /\ call.op \in {"upload", "upload_to_multiple"}
    /\ UploadOver(ProvidedReturn(ret),
                  IF call.op = "upload" THEN upload_result_on_return(ret)
                  ELSE upload_to_multiple_result_on_return(ret))

\* the awaited provider.upload([media]) raises an Exception
ProviderUploadRaises ==
    /\ call.op \in {"upload", "upload_to_multiple"}
    /\ UploadOver(ProvidedRaise,
                  IF call.op = "upload" THEN upload_result_on_raise
                  ELSE upload_to_multiple_result_on_raise)

\* the finished call's result has reached the caller
Complete ==
    /\ pc = "done"
    /\ pc' = "idle"
    /\ call' = NoCall
    /\ idx' = 0
    /\ results' = <<>>
    /\ outcome' = NoOutcome
    /\ trace' = <<>>
    /\ invocations' = <<>>
    /\ provided' = <<>>
    /\ UNCHANGED <<registry, built>>

Next ==
    \/ \E n \in NameInputs, l \in Limits : fetch_latest(n, l)
    \/ \E n \in NameInputs, u \in Usernames, l \in Limits : fetch_by_user(n, u, l)
    \/ \E n \in NameInputs, t \in TagInputs, l \in Limits : fetch_by_tags(n, t, l)
    \/ \E n \in NameInputs, m \in Media : upload(n, m)
    \/ \E m \in Media, ns \in BatchInputs : upload_to_multiple(m, ns)
    \/ \E p \in Pages : ProviderFetchReturns(p)
    \/ ProviderFetchRaises
    \/ \E r \in UploadReturns : ProviderUploadReturns(r)
    \/ ProviderUploadRaises
    \/ Complete

Spec == Init /\ [][Next]_vars

(***************************************************************************)
(* Value objects on their own: no call is in flight; built holds the       *)
(* inputs of one construction, then what the construction gave.            *)
(***************************************************************************)
Inputs(cls, args) == [NoBuilt EXCEPT !.cls = cls, !.phase = "input", !.args = args]

NoCallInFlight ==
    /\ registry = <<>>
    /\ call = NoCall
    /\ pc = "idle"
    /\ idx = 0
    /\ results = <<>>
    /\ outcome = NoOutcome
    /\ trace = <<>>
    /\ invocations = <<>>
    /\ provided = <<>>

NoCallStarts ==
    UNCHANGED <<registry, call, pc, idx, results, outcome, trace, invocations, provided>>

\* the arguments of Page(...), or the dict given to Page.from_dict, where a
\* key may be missing
PageInputs ==
    [items : {PyList(<<>>), PyList(<<"1", "2", "3">>), PyStr(<<"a", "b">>), PyNone,
              PyInt("7"), Missing},
     next_cursor : {PyNone, PyStr(<<"x">>), PyStr(<<>>), PyInt("4"), Missing},
     has_more : {PyTrue, PyFalse, PyNone, PyInt("1"), PyStr(<<"t">>), Missing}]

\* Page(items, next_cursor, has_more)
PageConstruct ==
    /\ built.cls = "Page"
    /\ built.phase = "input"
    /\ \A k \in {"items", "next_cursor", "has_more"} : built.args[k] # Missing
    /\ LET a == built.args
           r == Page_init(a.items, a.next_cursor, a.has_more)
       IN  built' = [built EXCEPT !.via = "init", !.phase = "done", !.reached = TRUE,
                                  !.ctor = a, !.exc = r.exc, !.obj = r.page]
    /\ NoCallStarts

\* Page.from_dict(data)
PageFromDict ==
    /\ built.cls = "Page"
    /\ built.phase = "input"
    /\ LET a == Page_from_dict_arguments(built.args)
           r == Page_from_dict(built.args)
       IN  built' = [built EXCEPT !.via = "from_dict", !.phase = "done",
                                  !.reached = (a.items.exc = ""),
                                  !.ctor = [items |-> a.items.list,
                                            next_cursor |-> a.next_cursor,
                                            has_more |-> a.has_more],
                                  !.exc = r.exc, !.obj = r.page]
    /\ NoCallStarts

(***************************************************************************)
(* The inputs of the value objects' constructions                          *)
(***************************************************************************)
Repeat(c, n) == [i \in 1..n |-> c]

\* the ProviderName instances that can be constructed from NameInputs
ProviderNames ==
    {PyProviderName(ProviderName(x).name) : x \in {y \in NameInputs : ProviderName(y).exc = ""}}

\* the arguments of ExternalProviderInfo(...); the lists of capabilities:
\* the registry's, empty, one capability twice, the same capabilities in
\* another order, one that is no capability
InfoInputs ==
    [name : ProviderNames \cup {PyNone},
     capabilities : CapabilityLists
         \cup {<<>>, <<UPLOAD, UPLOAD, FETCH_BY_TAGS>>, <<FETCH_BY_TAGS, UPLOAD>>,
               <<UPLOAD, "download">>},
     description : {PyNone, PyStr(<<"d">>)}]

\* the ExternalProviderInfo instances that can be constructed from InfoInputs
Infos ==
    {r.info : r \in {q \in {ExternalProviderInfo_init(a.name, a.capabilities, a.description) :
                                a \in InfoInputs} : q.exc = ""}}
AnInfo == CHOOSE i \in Infos : i.capabilities = <<UPLOAD, UPLOAD, FETCH_BY_TAGS>>

ContentMetadataInputs ==
    [content_type : DOMAIN ContentType_value,
     dimensions : {[width |-> 800, height |-> 600], [width |-> 1, height |-> 1]},
     file_size_bytes : {-1000, 0, 150000}]
AContentMetadata == ContentMetadata("IMAGE_JPEG", [width |-> 800, height |-> 600], 150000)

\* url arguments: absent, non-string, empty, valid (two), with a space,
\* without scheme, without netloc (three), with a scheme that starts with a
\* digit, with an unclosed bracket
MediaUrlInputs ==
    { PyNone, PyInt("7"), PyStr(<<>>),
      PyStr(<<"h", ":", "/", "/", "x">>),
      PyStr(<<"h", "+", "1", ":", "/", "/", "x", "/", "x", "?", "x">>),
      PyStr(<<"h", ":", "/", "/", "x", " ", "x">>),
      PyStr(<<"/", "/", "x">>),
      PyStr(<<"x">>),
      PyStr(<<"h", ":", "x">>),
      PyStr(<<"h", ":", "/", "/", "/", "x">>),
      PyStr(<<"1", "h", ":", "/", "/", "x">>),
      PyStr(<<"h", ":", "/", "/", "[", "x">>) }
AUrl == PyStr(<<"h", ":", "/", "/", "x">>)

\* title arguments: absent, non-string, empty, blank, short, of the greatest
\* length, one character longer, blank and too long
MediaTitleInputs ==
    { PyNone, PyInt("7"), PyStr(<<>>), PyStr(<<" ">>), PyStr(<<"t">>),
      PyStr(Repeat("t", MaxTitleLength)), PyStr(Repeat("t", MaxTitleLength + 1)),
      PyStr(Repeat(" ", MaxTitleLength + 1)) }

\* n tags, all different
TagList(n) == PyList([i \in 1..n |-> ToString(i)])
\* n tags, all the same
DuplicateTagList(n) == PyList(Repeat("t", n))
TagListInputs == {TagList(n) : n \in 0..MaxTags} \cup {DuplicateTagList(n) : n \in 0..MaxTags}

\* the arguments of ExternalMedia(...) for the order of the checks: every
\* combination of passing and failing arguments
MediaOrderInputs ==
    [url : {PyNone, PyStr(<<>>), AUrl, PyStr(<<"h", ":", "/", "/", "x", " ", "x">>),
            PyStr(<<"x">>)},
     title : MediaTitleInputs,
     description : {PyStr(<<>>), PyStr(Repeat("d", MaxDescriptionLength)),
                    PyStr(Repeat("d", MaxDescriptionLength + 1))},
     content_metadata : {AContentMetadata},
     tags : {TagList(0), DuplicateTagList(MaxTagCount), TagList(MaxTagCount + 1)},
     mature_rating : {"PG"}, ai_metadata : {PyNone},
     provider : {PyNone, PyStr(<<"p">>), AnInfo}]

\* the arguments of ExternalMedia(...) for the number of tags and the url:
\* every length up to MaxTags and every url, the other arguments valid
MediaTagCountInputs ==
    [url : MediaUrlInputs, title : {PyStr(<<"t">>)}, description : {PyStr(<<"d">>)},
     content_metadata : {AContentMetadata}, tags : TagListInputs,
     mature_rating : {"PG"}, ai_metadata : {PyNone}, provider : {AnInfo}]

\* the arguments of ExternalMedia(...) for serialization: every optional
\* part present and absent
MediaRoundTripInputs ==
    [url : {AUrl, PyStr(<<"x">>)},
     title : {PyStr(<<"t">>), PyStr(Repeat("t", MaxTitleLength))},
     description : {PyStr(<<>>), PyStr(<<"d">>)},
     content_metadata : {AContentMetadata, ContentMetadata("GIF", [width |-> 1, height |-> 1], 0),
                         ContentMetadata("IMAGE_JPEG", [width |-> 800, height |-> 600], -1000)},
     tags : {TagList(0), TagList(2), DuplicateTagList(MaxTagCount)},
     mature_rating : DOMAIN MatureRating_value,
     ai_metadata : {PyNone, AiMetadata(PyTrue), AiMetadata(PyFalse)},
     provider : {i \in Infos : i.name = <<"a">> /\ i.description = PyNone} \cup {AnInfo}]

(***************************************************************************)
(* Constructions                                                           *)
(***************************************************************************)
Construct(cls) == built.cls = cls /\ built.phase = "input"

Constructed(exc, obj) ==
    /\ built' = [built EXCEPT !.via = "init", !.phase = "done", !.reached = TRUE,
                              !.ctor = built.args, !.exc = exc, !.obj = obj]
    /\ NoCallStarts

\* ExternalMedia(url, title, ...)
MediaConstruct ==
    /\ Construct("ExternalMedia")
    /\ LET r == ExternalMedia_init(built.args)
       IN  Constructed(r.exc, r.media)

\* ExternalProviderInfo(name, capabilities, description)
InfoConstruct ==
    /\ Construct("ExternalProviderInfo")
    /\ LET a == built.args
           r == ExternalProviderInfo_init(a.name, a.capabilities, a.description)
       IN  Constructed(r.exc, r.info)

\* ContentMetadata(content_type, dimensions, file_size_bytes)
ContentMetadataConstruct ==
    /\ Construct("ContentMetadata")
    /\ LET a == built.args
       IN  Constructed("", ContentMetadata(a.content_type, a.dimensions, a.file_size_bytes))

\* AiMetadata(is_ai_generated)
AiMetadataConstruct ==
    /\ Construct("AiMetadata")
    /\ Constructed("", AiMetadata(built.args.is_ai_generated))

(***************************************************************************)
(* Serialization: to_dict, then from_dict, then == with the original       *)
(***************************************************************************)
RoundTrip(cls) == built.cls = cls /\ built.phase = "done" /\ built.exc = ""

RoundTripped(exc, back, equal) ==
    /\ built' = [built EXCEPT !.phase = "roundtrip",
                              !.back = [exc |-> exc, obj |-> back],
                              !.equal = (exc = "" /\ equal)]
    /\ NoCallStarts

\* ExternalMedia.from_dict(media.to_dict()) == media
MediaRoundTrip ==
    /\ RoundTrip("ExternalMedia")
    /\ LET r == ExternalMedia_from_dict(ExternalMedia_to_dict(built.obj))
       IN  RoundTripped(r.exc, r.media, ExternalMedia_eq(r.media, built.obj))

\* ExternalProviderInfo.from_dict(info.to_dict()) == info
InfoRoundTrip ==
    /\ RoundTrip("ExternalProviderInfo")
    /\ LET r == ExternalProviderInfo_from_dict(ExternalProviderInfo_to_dict(built.obj))
       IN  RoundTripped(r.exc, r.info, ExternalProviderInfo_eq(r.info, built.obj))

\* ContentMetadata.from_dict(content_metadata.to_dict()) == content_metadata
ContentMetadataRoundTrip ==
    /\ RoundTrip("ContentMetadata")
    /\ LET r == ContentMetadata_from_dict(ContentMetadata_to_dict(built.obj))
       IN  RoundTripped(r.exc, r.content_metadata,
                        ContentMetadata_eq(r.content_metadata, built.obj))

\* AiMetadata.from_dict(ai_metadata.to_dict()) == ai_metadata
AiMetadataRoundTrip ==
    /\ RoundTrip("AiMetadata")
    /\ LET back == AiMetadata_from_dict(AiMetadata_to_dict(built.obj))
       IN  RoundTripped("", back, AiMetadata_eq(back, built.obj))

\* Page.from_dict(page.to_dict()) == page
PageRoundTrip ==
    /\ RoundTrip("Page")
    /\ LET r == Page_from_dict(Page_to_dict(built.obj))
       IN  RoundTripped(r.exc, r.page, Page_eq(r.page, built.obj))

(***************************************************************************)
(* The lists a caller still holds                                          *)
(***************************************************************************)
\* list.append(x) by the caller after ExternalMedia(...) returned. The list
\* is the one passed as tags, which _tags refers to (self._tags = tags), or
\* the one the tags accessor returned, a copy (list(self._tags)), or the one
\* in the dict passed to from_dict, which from_dict hands to the constructor
\* (tags=data.get("tags", []))
MediaTagsAppend(holder, x) ==
    /\ built.cls = "ExternalMedia"
    /\ built.exc = ""
    /\ \/ /\ holder = "passed"
          /\ built.phase = "done"
          /\ built' = [built EXCEPT !.via = holder, !.phase = "appended",
                                    !.args.tags.v = Append(@, x),
                                    !.obj.tags = Append(@, x)]
       \/ /\ holder = "accessor"
          /\ built.phase = "done"
          /\ built' = [built EXCEPT !.via = holder, !.phase = "appended",
                                    !.back = [exc |-> "", obj |-> Append(built.obj.tags, x)]]
       \/ /\ holder = "dict"
          /\ built.phase = "roundtrip"
          /\ built.back.exc = ""
          /\ built' = [built EXCEPT !.via = holder, !.phase = "appended",
                                    !.back.obj.tags = Append(@, x)]
    /\ NoCallStarts

\* list.append(c) by the caller after ExternalProviderInfo(...) returned.
\* The list is the one passed as capabilities, which _capabilities refers
\* to (self._capabilities = capabilities), or the one the capabilities
\* accessor returned, a copy (list(self._capabilities))
InfoCapabilitiesAppend(holder, c) ==
    /\ RoundTrip("ExternalProviderInfo")
    /\ \/ /\ holder = "passed"
          /\ built' = [built EXCEPT !.via = holder, !.phase = "appended",
                                    !.args.capabilities = Append(@, c),
                                    !.obj.capabilities = Append(@, c)]
       \/ /\ holder = "accessor"
          /\ built' = [built EXCEPT !.via = holder, !.phase = "appended",
                                    !.back = [exc |-> "",
                                              obj |-> Append(built.obj.capabilities, c)]]
    /\ NoCallStarts

\* media == other and hash(media), hash(other), other being the media
\* constructed from the same arguments but for the provider
MediaCompare(provider) ==
    /\ RoundTrip("ExternalMedia")
    /\ LET r == ExternalMedia_init([built.ctor EXCEPT !.provider = provider])
       IN  built' = [built EXCEPT
                        !.via = "eq", !.phase = "compared",
                        !.back = [exc |-> r.exc, obj |-> r.media,
                                  hash |-> ExternalMedia_hash(built.obj),
                                  other_hash |-> ExternalMedia_hash(r.media)],
                        !.equal = ExternalMedia_eq(built.obj, r.media)]
    /\ NoCallStarts

(***************************************************************************)
(* ProviderName on its own                                                 *)
(***************************************************************************)
\* ProviderName(name)
ProviderNameConstruct ==
    /\ Construct("ProviderName")
    /\ LET r == ProviderName(built.args.name)
       IN  Constructed(r.exc, r.name)

\* ProviderName(p.name), p being the name constructed
ProviderNameAgain ==
    /\ RoundTrip("ProviderName")
    /\ LET r == ProviderName(PyStr(built.obj))
       IN  RoundTripped(r.exc, r.name, r.name = built.obj)

\* p == s and p == ProviderName(s), p being the name constructed and s a str
ProviderNameCompare(s) ==
    /\ RoundTrip("ProviderName")
    /\ s.t = "str"
    /\ LET r == ProviderName(s)
       IN  built' = [built EXCEPT
                        !.phase = "compared",
                        !.back = [other |-> s, exc |-> r.exc,
                                  with_name |-> ProviderName_eq(built.obj,
                                                                PyProviderName(r.name))],
                        !.equal = ProviderName_eq(built.obj, s)]
    /\ NoCallStarts

InitValues ==
    /\ built \in {Inputs("ExternalMedia", a) :
                      a \in MediaOrderInputs \cup MediaTagCountInputs \cup MediaRoundTripInputs}
            \cup {Inputs("ExternalProviderInfo", a) : a \in InfoInputs}
            \cup {Inputs("ContentMetadata", a) : a \in ContentMetadataInputs}
            \cup {Inputs("AiMetadata", a) : a \in [is_ai_generated : {PyTrue, PyFalse}]}
            \cup {Inputs("Page", a) : a \in PageInputs}
            \cup {Inputs("ProviderName", [name |-> x]) :
                      x \in NameInputs \cup {PyStr(<<"a", " ", "-", "B">>)}}
    /\ NoCallInFlight

NextValues ==
    \/ MediaConstruct
    \/ InfoConstruct
    \/ ContentMetadataConstruct
    \/ AiMetadataConstruct
    \/ PageConstruct
    \/ PageFromDict
    \/ MediaRoundTrip
    \/ InfoRoundTrip
    \/ ContentMetadataRoundTrip
    \/ AiMetadataRoundTrip
    \/ PageRoundTrip
    \/ \E holder \in {"passed", "accessor", "dict"} : MediaTagsAppend(holder, "new_tag")
    \/ \E holder \in {"passed", "accessor"}, c \in ExternalProviderCapability :
           InfoCapabilitiesAppend(holder, c)
    \/ \E provider \in Infos : MediaCompare(provider)
    \/ ProviderNameConstruct
    \/ ProviderNameAgain
    \/ \E s \in NameInputs \cup {PyStr(<<"a", " ", "-", "B">>)} : ProviderNameCompare(s)

SpecValues == InitValues /\ [][NextValues]_vars

(***************************************************************************)
(* Properties                                                              *)
(***************************************************************************)
SingleOps == {"fetch_latest", "fetch_by_user", "fetch_by_tags", "upload"}
FetchOps == {"fetch_latest", "fetch_by_user", "fetch_by_tags"}

\* the provider a name stands for: the first registered provider whose name
\* is the normalized form of the name; 0 when the name is no string, has no
\* normalized form or matches no provider
ResolvedProvider(name) ==
    IF name.t = "str" /\ ProviderName(name).exc = ""
    THEN FirstMatch(registry, ProviderName(name).name)
    ELSE 0

Supports(name, op) ==
    /\ ResolvedProvider(name) # 0
    /\ RequiredCapability(op) \in
           { registry[ResolvedProvider(name)].capabilities[k] :
               k \in 1..Len(registry[ResolvedProvider(name)].capabilities) }

\* C1: on an empty registry every call fails with its own "no providers
\* registered" error, whatever the provider name(s), having done nothing but
\* ask the registry for its providers: no name was validated or looked up
C1_EmptyRegistryFailsFirst ==
    (Len(registry) = 0 /\ call.op # "none") =>
        /\ pc = "done"
        /\ outcome = Raised(NoProvidersError(call.op))
        /\ \A k \in 1..Len(trace) : trace[k].ev = "get_providers"
        /\ invocations = <<>>

C1_Witness ==
    /\ Len(registry) = 0
    /\ call.op = "upload_to_multiple"
    /\ call.providers = <<>>
    /\ pc = "done"
    /\ outcome.kind = "raise"

\* C2: a name that resolves to a provider lacking the capability of the
\* called operation makes the call fail with that operation's "provider does
\* not support" error, and no operation of the provider is invoked
C2_MissingCapabilityError ==
    (call.op \in SingleOps /\ ResolvedProvider(call.provider_name) # 0
        /\ ~Supports(call.provider_name, call.op)) =>
        /\ pc = "done"
        /\ outcome = Raised(NotSupportedError(call.op))
        /\ outcome.exc # InvalidNameError(call.op)
        /\ invocations = <<>>

C2_Witness ==
    /\ registry = <<[name |-> <<"a">>, capabilities |-> <<FETCH_BY_USER, FETCH_BY_TAGS>>]>>
    /\ call.op = "fetch_latest"
    /\ call.provider_name = PyStr(<<"a">>)
    /\ outcome = Raised(NotSupportedError("fetch_latest"))

\* C3: on a non-empty registry every name that cannot be resolved makes the
\* single-name calls fail with the operation's "invalid provider name" error
C3_UnresolvableNameIsInvalidName ==
    (call.op \in SingleOps /\ Len(registry) > 0
        /\ ResolvedProvider(call.provider_name) = 0) =>
        /\ pc = "done"
        /\ outcome = Raised(InvalidNameError(call.op))

\* C4: a fetch whose name resolves to a provider with the capability invokes
\* that provider's matching operation exactly once, and what it returns is
\* the Page the provider returned, unmodified
C4_FetchDelegatesAndReturnsPage ==
    (call.op \in FetchOps /\ Supports(call.provider_name, call.op)) =>
        /\ Len(invocations) = 1
        /\ invocations[1].prov = ResolvedProvider(call.provider_name)
        /\ invocations[1].op = call.op
        /\ pc \in {"awaiting", "done"}
        /\ pc = "awaiting" => provided = <<>>
        /\ pc = "done" =>
              /\ Len(provided) = 1
              /\ provided[1].kind = "return" => outcome = ReturnedPage(provided[1].page)

C4_Witness ==
    /\ call.op = "fetch_by_user"
    /\ pc = "done"
    /\ Len(invocations) = 1
    /\ outcome.kind = "page"
    /\ outcome.page.has_more
    /\ outcome.page.items = <<"m2">>

C6_TagsForwardedAsSupplied ==
    (call.op = "fetch_by_tags" /\ invocations # <<>>) =>
        invocations[1].arg = call.tags

C8_UploadMirrorsProviderResult ==
    /\ (call.op = "upload" /\ pc = "done" /\ provided = <<ProvidedReturn(PyObj("False"))>>)
          => outcome = ReturnedBool(FALSE)
    /\ (call.op = "upload_to_multiple" /\ pc = "done" /\ outcome.kind = "dict") =>
          \A k \in 1..Len(provided) :
              provided[k] = ProvidedReturn(PyObj("False")) =>
                  \E e \in 1..Len(outcome.dict) :
                      /\ outcome.dict[e].key = call.providers[invocations[k].pos]
                      /\ outcome.dict[e].value = FALSE

\* C9: every upload invoked on a provider gets the caller's media item
\* itself as its argument, once per name
C9_UploadArgumentIsTheMediaItem ==
    call.op \in {"upload", "upload_to_multiple"} =>
        /\ \A k \in 1..Len(invocations) :
              /\ invocations[k].op = UPLOAD
              /\ invocations[k].arg = PyObj(call.media)
        /\ \A j, k \in 1..Len(invocations) : invocations[j].pos = invocations[k].pos => j = k

\* the names of a list that fail name validation, resolution or the UPLOAD
\* capability check
FailingPositions(names) ==
    { i \in 1..Len(names) : ~Supports(names[i], "upload_to_multiple") }

\* C10: upload_to_multiple takes the names one after another in input order
\* (the k-th upload is for position k and starts only when the upload of
\* every earlier position has finished), and it does nothing for any name
\* behind the first one that fails validation, resolution or the capability
\* check
C10_SequentialAndAbortOnInvalid ==
    call.op = "upload_to_multiple" =>
        /\ \A k \in 1..Len(invocations) : invocations[k].pos = k
        /\ \A j, k \in 1..Len(trace) : j < k => trace[j].pos <= trace[k].pos
        /\ \A k \in 1..Len(trace) :
              (trace[k].ev = "start" /\ trace[k].pos > 1) =>
                  \E j \in 1..(k - 1) :
                      trace[j].ev = "finish" /\ trace[j].pos = trace[k].pos - 1
        /\ \A i \in FailingPositions(call.providers) :
              /\ \A k \in 1..Len(trace) : trace[k].pos <= i
              /\ \A k \in 1..Len(invocations) : invocations[k].pos < i

C10_Witness ==
    /\ call.op = "upload_to_multiple"
    /\ Len(call.providers) = 2
    /\ FailingPositions(call.providers) = {2}
    /\ Len(invocations) = 1
    /\ Len(provided) = 1
    /\ pc = "done"
    /\ outcome.kind = "raise"


RECURSIVE FirstOccurrences(_)
FirstOccurrences(names) ==
    IF names = <<>> THEN <<>>
    ELSE LET front == FirstOccurrences(SubSeq(names, 1, Len(names) - 1))
             last == names[Len(names)]
         IN  IF \E k \in 1..Len(front) : front[k] = last THEN front ELSE Append(front, last)

\* C12: on a registry with providers, when every name resolves to a provider
\* with UPLOAD, a provider's
\* exception is recorded as false and the loop goes on: every name's upload
\* is attempted and the mapping returned has an entry for every name given,
\* in input order
C12_UploadExceptionDoesNotStopBatch ==
    (call.op = "upload_to_multiple" /\ registry # <<>>
        /\ FailingPositions(call.providers) = {} /\ pc = "done") =>
        /\ outcome.kind = "dict"
        /\ Len(invocations) = Len(call.providers)
        /\ Len(provided) = Len(call.providers)
        /\ [e \in 1..Len(outcome.dict) |-> outcome.dict[e].key]
              = FirstOccurrences(call.providers)
        /\ \A k \in 1..Len(provided) :
              (/\ provided[k].kind = "raise"
               /\ \A j \in (k + 1)..Len(call.providers) :
                     call.providers[j] # call.providers[k]) =>
                  \E e \in 1..Len(outcome.dict) :
                      /\ outcome.dict[e].key = call.providers[k]
                      /\ outcome.dict[e].value = FALSE

C12_Witness ==
    /\ call.op = "upload_to_multiple"
    /\ Len(call.providers) = 2
    /\ pc = "done"
    /\ outcome.kind = "dict"
    /\ Len(outcome.dict) = 2
    /\ provided[1].kind = "raise"
    /\ provided[2].kind = "return"

\* C13: in upload and upload_to_multiple a name that fails validation,
\* resolution or the capability check always ends the call with an error,
\* and a false result or mapping entry comes only from a provider's upload
\* that raised
C13_ValidationFailureNeverFalse ==
    /\ (call.op = "upload" /\ pc = "done" /\ ~Supports(call.provider_name, "upload"))
          => outcome.kind = "raise"
    /\ (call.op = "upload_to_multiple" /\ pc = "done"
          /\ FailingPositions(call.providers) # {}) => outcome.kind = "raise"
    /\ (call.op = "upload" /\ outcome = ReturnedBool(FALSE)) => provided = <<ProvidedRaise>>
    /\ (call.op = "upload_to_multiple" /\ outcome.kind = "dict") =>
          \A e \in 1..Len(outcome.dict) :
              outcome.dict[e].value = FALSE =>
                  \E k \in 1..Len(provided) :
                      /\ call.providers[invocations[k].pos] = outcome.dict[e].key
                      /\ provided[k].kind = "raise"

C13_Witness ==
    /\ call.op = "upload_to_multiple"
    /\ Len(call.providers) = 2
    /\ call.providers[1] = PyStr(<<"a">>)
    /\ pc = "done"
    /\ outcome = Raised(NotSupportedError("upload_to_multiple"))

\* C14: no step of any call changes the registry: the providers
\* get_providers() reports, their order, names and capabilities stay as they
\* were
C14_RegistryNeverChanges == [][registry' = registry]_vars

C14_Witness ==
    /\ Len(registry) = 2
    /\ call.op = "upload_to_multiple"
    /\ pc = "done"
    /\ outcome.kind = "dict"
    /\ Len(provided) = 2

\* the positions in get_providers() of the providers whose name is the
\* normalized form of a name
Matching(name) ==
    { k \in 1..Len(registry) : registry[k].name = KeepAlnum(Lower(Strip(name.v))) }

HasUsableForm(name) ==
    name.t = "str" /\ KeepAlnum(Lower(Strip(name.v))) # <<>> /\ Matching(name) # {}

First(S) == CHOOSE k \in S : \A j \in S : k <= j

\* C15: a name is resolved to the first provider, in get_providers() order,
\* whose name equals its normalized form; that provider alone decides the
\* capability check and receives the delegated call
C15_FirstMatchingProviderWins ==
    /\ (call.op \in SingleOps /\ HasUsableForm(call.provider_name)) =>
          LET f == First(Matching(call.provider_name))
              cap == RequiredCapability(call.op)
              has == \E k \in 1..Len(registry[f].capabilities) :
                         registry[f].capabilities[k] = cap
          IN  /\ \A k \in 1..Len(trace) : trace[k].prov \in {0, f}
              /\ \E k \in 1..Len(trace) : trace[k] = Ev("has_capability", 1, f)
              /\ has => (Len(invocations) = 1 /\ invocations[1].prov = f)
              /\ ~has => (invocations = <<>> /\ outcome = Raised(NotSupportedError(call.op)))
    /\ call.op = "upload_to_multiple" =>
          \A k \in 1..Len(invocations) :
              invocations[k].prov = First(Matching(call.providers[invocations[k].pos]))

C15_Witness ==
    /\ Len(registry) = 2
    /\ registry[1].name = registry[2].name
    /\ registry[1].capabilities = <<FETCH_BY_USER, FETCH_BY_TAGS>>
    /\ registry[2].capabilities = <<UPLOAD, FETCH_LATEST>>
    /\ call.op = "fetch_latest"
    /\ call.provider_name = PyStr(<<" ", "A", "-">>)
    /\ outcome = Raised(NotSupportedError("fetch_latest"))

PageBuilt == built.cls = "Page" /\ built.phase \in {"done", "roundtrip"}

PageViolated(a) ==
    <<a.items.t # "list",
      a.has_more.t # "bool",
      a.next_cursor.t \notin {"none", "str"},
      a.has_more = PyTrue /\ a.next_cursor = PyNone,
      a.next_cursor # PyNone /\ a.has_more # PyTrue>>

PageErrorKinds ==
    <<NonListItems, NonBooleanHasMore, NonStringNextCursor, HasMoreTrueButNoNextCursor,
      NextCursorSetButNoMoreItems>>

FirstViolated(violated, kinds) ==
    IF \E i \in 1..Len(violated) : violated[i]
    THEN kinds[CHOOSE i \in 1..Len(violated) :
                   violated[i] /\ \A j \in 1..(i - 1) : ~violated[j]]
    ELSE ""

MediaBuilt == built.cls = "ExternalMedia" /\ built.phase \in {"done", "roundtrip"}

\* C18: for every ExternalMedia, ExternalProviderInfo, ContentMetadata,
\* AiMetadata and Page x that was constructed from arguments of the declared
\* types, from_dict(to_dict(x)) raises nothing and is == to x; this covers
\* a media without ai_metadata, one whose ai_metadata has a false flag, and
\* one without tags
C18_RoundTrip ==
    built.phase = "roundtrip" => (built.back.exc = "" /\ built.equal)

C18_Witness ==
    /\ MediaBuilt
    /\ built.phase = "roundtrip"
    /\ built.obj.ai_metadata = AiMetadata(PyFalse)
    /\ built.obj.tags = <<>>
    /\ built.obj.provider.capabilities = <<UPLOAD, UPLOAD, FETCH_BY_TAGS>>
    /\ built.back.obj.ai_metadata = AiMetadata(PyFalse)
    /\ built.equal

\* the validations of the ExternalMedia constructor, in the order claimed,
\* as conditions on the arguments: TRUE where the validation is violated
MediaViolated(a) ==
    <<~(a.url.t = "str" /\ is_valid_url(a.url.v)),
      ~(a.title.t = "str" /\ Strip(a.title.v) # <<>>),
      a.title.t = "str" /\ Len(a.title.v) > 255,
      Len(a.description.v) > 2048,
      Len(a.tags.v) > 30,
      a.provider.t # "ExternalProviderInfo">>

MediaErrorKinds ==
    <<InvalidURL, EmptyTitle, TitleExceedingMaxLength, DescriptionExceedingMaxLength,
      TooManyTags, InvalidProvider>>

\* C19: given a description that is a str and tags that are a list, the
\* error ExternalMedia's constructor raises is the one of the first
\* violated validation in the order url validity, title non-empty, title
\* length (at most 255), description length (at most 2048), tag count (at
\* most 30), provider validity; it raises nothing when none is violated
C19_FirstViolatedValidationDecides ==
    (MediaBuilt /\ built.via = "init") =>
        built.exc = FirstViolated(MediaViolated(built.ctor), MediaErrorKinds)

C19_Witness ==
    /\ MediaBuilt
    /\ built.ctor.url = AUrl
    /\ Len(built.ctor.title.v) = 256
    /\ Len(built.ctor.description.v) = 2049
    /\ Len(built.ctor.tags.v) = 31
    /\ built.ctor.provider = PyNone
    /\ built.exc = TitleExceedingMaxLength

OtherwiseValid(a) ==
    \A i \in {1, 2, 3, 4, 6} : ~MediaViolated(a)[i]

\* C20: with the other arguments valid, ExternalMedia's constructor raises
\* the too-many-tags error for every list of more than 30 tags, and for
\* every list of 0 to 30 tags, with or without duplicates, it gives a media
\* with these tags
C20_TagCountBoundary ==
    (MediaBuilt /\ built.via = "init" /\ OtherwiseValid(built.ctor)) =>
        IF Len(built.ctor.tags.v) > 30
        THEN built.exc = TooManyTags
        ELSE built.exc = "" /\ built.obj.tags = built.ctor.tags.v

C20_Witness ==
    /\ MediaBuilt
    /\ OtherwiseValid(built.ctor)
    /\ built.exc = ""
    /\ Len(built.obj.tags) = 30
    /\ built.obj.tags[1] = built.obj.tags[2]

NameBuilt == built.cls = "ProviderName" /\ built.phase # "input"

\* C21: for every string the ProviderName constructor accepts, constructing a
\* ProviderName from the name it gave is accepted too and gives the same name
C21_NormalizationIdempotent ==
    (built.cls = "ProviderName" /\ built.phase = "roundtrip") =>
        (built.back.exc = "" /\ built.back.obj = built.obj)

C21_Witness ==
    /\ built.cls = "ProviderName"
    /\ built.phase = "roundtrip"
    /\ built.ctor.name = PyStr(<<"a", " ", "-", "B">>)
    /\ built.obj = <<"a", "b">>
    /\ built.back.obj = <<"a", "b">>

C23_StringEqualityNormalizes ==
    (built.cls = "ProviderName" /\ built.phase = "compared" /\ built.back.exc = "") =>
        (built.equal <=> built.back.with_name)

\* C24: the tags of an ExternalMedia are, at every later point, the tags it
\* was constructed with, at most 30, also after the caller appended to the
\* list passed as tags, to the list in the dict passed to from_dict or to
\* the list the tags accessor returned
C24_TagsNeverChange ==
    (built.cls = "ExternalMedia" /\ built.phase = "appended") =>
        LET media == IF built.via = "dict" THEN built.back.obj ELSE built.obj
        IN  /\ media.tags = built.ctor.tags.v
            /\ Len(media.tags) <= MaxTagCount

\* C25: the capabilities of an ExternalProviderInfo are, at every later
\* point, the ones it was constructed with and not empty, and
\* has_capability answers as it did, also after the caller appended to the
\* list passed as capabilities or to the list the accessor returned
C25_CapabilitiesNeverChange ==
    (built.cls = "ExternalProviderInfo" /\ built.phase = "appended") =>
        /\ built.obj.capabilities = built.ctor.capabilities
        /\ built.obj.capabilities # <<>>
        /\ \A c \in ExternalProviderCapability :
               has_capability(built.obj, c)
                   <=> has_capability([capabilities |-> built.ctor.capabilities], c)

\* C26: every constructed ExternalMedia has a content metadata of
\* nonnegative width, height and file size: the construction with a
\* negative file size raises the invalid-content-metadata error
C26_NonnegativeContentMetadata ==
    (built.cls = "ExternalMedia" /\ built.phase = "done") =>
        /\ built.exc = "" =>
               /\ built.obj.content_metadata.dimensions.width >= 0
               /\ built.obj.content_metadata.dimensions.height >= 0
               /\ built.obj.content_metadata.file_size_bytes >= 0
        /\ built.ctor.content_metadata.file_size_bytes < 0 =>
               built.exc = "CannotCreateExternalMediaWithInvalidContentMetadataException"

\* C27: when the provider's operation raises during fetch_latest,
\* fetch_by_user or fetch_by_tags, the call raises that same exception,
\* after a single invocation: no retry, no Page, no boolean, no domain
\* error; the provider's exception never leaves upload or upload_to_multiple
C27_FetchFailurePropagates ==
    (pc = "done" /\ \E k \in 1..Len(provided) : provided[k].kind = "raise") =>
        IF call.op \in FetchOps
        THEN /\ outcome = Raised(ProviderError)
             /\ Len(invocations) = 1
             /\ provided = <<ProvidedRaise>>
        ELSE outcome.exc # ProviderError

C27_Witness ==
    /\ pc = "done"
    /\ call.op = "fetch_by_tags"
    /\ Len(invocations) = 1
    /\ provided = <<ProvidedRaise>>
    /\ outcome = Raised(ProviderError)

\* the name given for position pos of the call in flight
RequestedName(pos) ==
    IF call.op = "upload_to_multiple" THEN call.providers[pos] ELSE call.provider_name

\* C28: at every point of every sequence of calls, each provider operation
\* invoked by the call in flight was invoked on a provider that
\* get_providers() returned during the call, whose name is the normalized
\* form of the name requested at that position and which has the
\* capability of the operation, which is the one the call requires; there
\* is at most one invocation per requested name, in the order of the names
C28_OnlyResolvedCapableProviderInvoked ==
    /\ Len(invocations) <= (IF call.op = "upload_to_multiple" THEN Len(call.providers) ELSE 1)
    /\ \A k \in 1..Len(invocations) :
           LET i == invocations[k]
               name == RequestedName(i.pos)
           IN  /\ i.pos = k
               /\ i.prov \in 1..Len(registry)
               /\ \E t, u \in 1..Len(trace) :
                      /\ t < u
                      /\ trace[t] = Ev("get_providers", i.pos, 0)
                      /\ trace[u] = Ev("start", i.pos, i.prov)
               /\ name.t = "str"
               /\ ProviderName(name).exc = ""
               /\ registry[i.prov].name = ProviderName(name).name
               /\ i.op = RequiredCapability(call.op)
               /\ \E c \in 1..Len(registry[i.prov].capabilities) :
                      registry[i.prov].capabilities[c] = i.op

C28_Witness ==
    /\ pc = "awaiting"
    /\ call.op = "fetch_by_user"
    /\ call.provider_name = PyStr(<<" ", "A", "-">>)
    /\ Len(registry) = 2
    /\ Len(invocations) = 1
    /\ invocations[1].prov = 2
    /\ registry[2].name = <<"a">>

\* C29: the mapping upload_to_multiple returns is keyed by the names as
\* given: one upload was attempted per position, the keys are the distinct
\* strings given, each with the outcome of the last attempt made for that
\* string, so that two strings of the same normalized form are two entries
C29_KeyedByNameAsGiven ==
    (call.op = "upload_to_multiple" /\ pc = "done" /\ outcome.kind = "dict") =>
        LET names == call.providers
            keys == {outcome.dict[e].key : e \in 1..Len(outcome.dict)}
        IN  /\ Len(invocations) = Len(names)
            /\ \A k \in 1..Len(names) : invocations[k].pos = k
            /\ keys = {names[k] : k \in 1..Len(names)}
            /\ Len(outcome.dict) = Cardinality(keys)
            /\ \A e \in 1..Len(outcome.dict) :
                   LET last == CHOOSE k \in 1..Len(names) :
                                   /\ names[k] = outcome.dict[e].key
                                   /\ \A j \in (k + 1)..Len(names) : names[j] # names[k]
                   IN  outcome.dict[e].value = (provided[last].kind = "return")

C29_Witness ==
    /\ call.op = "upload_to_multiple"
    /\ pc = "done"
    /\ call.providers = <<PyStr(<<"a">>), PyStr(<<" ", "A", "-">>)>>
    /\ outcome.kind = "dict"
    /\ Len(outcome.dict) = 2
    /\ Len(invocations) = 2
    /\ invocations[1].prov = invocations[2].prov
    /\ outcome.dict[1].key = PyStr(<<"a">>)
    /\ outcome.dict[2].key = PyStr(<<" ", "A", "-">>)

\* C30: two ExternalMedia that are equal have the same hash, also when
\* their providers list the same capabilities in another order or with
\* duplicates
C30_EqualMediaHashAlike ==
    (built.cls = "ExternalMedia" /\ built.phase = "compared" /\ built.equal) =>
        built.back.hash = built.back.other_hash

====
